---------------------------- MODULE Spec2Model ----------------------------
(***************************************************************************)
(* A model of qwk (BlueBlazin/qwak): a command line tool that stores named *)
(* prompts ("aliases") and dispatches them to a configurable agent program.*)
(*                                                                         *)
(* Text is modelled as a sequence of one-character strings, so that prefix *)
(* tests, trimming, tokenizing and JSON escaping are computed and not      *)
(* assumed.  The state is the per-user configuration directory (alias file,*)
(* agent file, backups, first-run marker), the shell startup file, and a   *)
(* record of what the last invocation of the tool did.                     *)
(*                                                                         *)
(* Environment assumptions: HOME is set (config.rs:10 aborts otherwise),   *)
(* and argv[0] is the program name, never the token "--".                  *)
(***************************************************************************)
EXTENDS Naturals, Integers, Sequences, FiniteSets, TLC

\* ------------------------------------------------------------ characters
DQ == "\""
SQ == "'"
BS == "\\"
NL == "\n"
TAB == "\t"
SP == " "
HASH == "#"

\* char::is_whitespace on the characters the model uses (str::trim,
\* split_whitespace)
IsWhitespace(c) == c \in {SP, NL, TAB}

\* ---------------------------------------------------------------- strings
Concat(ss) ==
  LET F[i \in 0..Len(ss)] == IF i = 0 THEN <<>> ELSE F[i - 1] \o ss[i]
  IN  F[Len(ss)]

\* str::starts_with
starts_with(s, p) ==
  /\ Len(p) <= Len(s)
  /\ SubSeq(s, 1, Len(p)) = p

\* str::contains
contains(s, p) ==
  \E i \in 1..(Len(s) + 1) :
     /\ i + Len(p) - 1 <= Len(s)
     /\ SubSeq(s, i, i + Len(p) - 1) = p

\* str::trim: leading and trailing whitespace removed
trim(s) ==
  LET nonws == {i \in 1..Len(s) : ~IsWhitespace(s[i])}
      Min(S) == CHOOSE m \in S : \A k \in S : m <= k
      Max(S) == CHOOSE m \in S : \A k \in S : m >= k
  IN  IF nonws = {} THEN <<>> ELSE SubSeq(s, Min(nonws), Max(nonws))


\* str::split_whitespace, collected: the maximal runs of non-blank characters
RECURSIVE split_whitespace_from(_, _, _, _)
split_whitespace_from(s, i, word, acc) ==
  IF i > Len(s) THEN (IF word = <<>> THEN acc ELSE Append(acc, word))
  ELSE IF IsWhitespace(s[i])
    THEN split_whitespace_from(s, i + 1, <<>>, IF word = <<>> THEN acc ELSE Append(acc, word))
  ELSE split_whitespace_from(s, i + 1, Append(word, s[i]), acc)

split_whitespace(s) == split_whitespace_from(s, 1, <<>>, <<>>)

\* ------------------------------------------------ shlex::split (utils.rs:4)
\* The tokenizer of the shlex crate, which is no part of this repository.
\* The lexer's position is an index into the text; Len(s) + 1 is the end.
RECURSIVE parse_single(_, _, _)
parse_single(s, i, acc) ==
  IF i > Len(s) THEN [ok |-> FALSE, word |-> acc, next |-> i]
  ELSE IF s[i] = SQ THEN [ok |-> TRUE, word |-> acc, next |-> i + 1]
  ELSE parse_single(s, i + 1, Append(acc, s[i]))

RECURSIVE parse_double(_, _, _)
parse_double(s, i, acc) ==
  IF i > Len(s) THEN [ok |-> FALSE, word |-> acc, next |-> i]
  ELSE IF s[i] = BS THEN
    IF i + 1 > Len(s) THEN [ok |-> FALSE, word |-> acc, next |-> i + 1]
    ELSE IF s[i + 1] \in {"$", DQ, BS}   \* and the backquote, not in the model's alphabet
      THEN parse_double(s, i + 2, Append(acc, s[i + 1]))
    ELSE IF s[i + 1] = NL THEN parse_double(s, i + 2, acc)
    ELSE parse_double(s, i + 2, acc \o <<BS, s[i + 1]>>)
  ELSE IF s[i] = DQ THEN [ok |-> TRUE, word |-> acc, next |-> i + 1]
  ELSE parse_double(s, i + 1, Append(acc, s[i]))

\* One word starting at the non-blank character s[i].
RECURSIVE parse_word(_, _, _)
parse_word(s, i, acc) ==
  IF i > Len(s) THEN [ok |-> TRUE, word |-> acc, next |-> i]
  ELSE IF s[i] = DQ THEN
    LET r == parse_double(s, i + 1, acc)
    IN  IF r.ok THEN parse_word(s, r.next, r.word) ELSE r
  ELSE IF s[i] = SQ THEN
    LET r == parse_single(s, i + 1, acc)
    IN  IF r.ok THEN parse_word(s, r.next, r.word) ELSE r
  ELSE IF s[i] = BS THEN
    IF i + 1 > Len(s) THEN [ok |-> FALSE, word |-> acc, next |-> i + 1]
    ELSE IF s[i + 1] = NL THEN parse_word(s, i + 2, acc)
    ELSE parse_word(s, i + 2, Append(acc, s[i + 1]))
  ELSE IF s[i] \in {SP, TAB, NL} THEN [ok |-> TRUE, word |-> acc, next |-> i + 1]
  ELSE parse_word(s, i + 1, Append(acc, s[i]))

\* Skips blanks and comments before a word; the index of the word's first
\* character, or Len(s) + 1 when the text ends first.
RECURSIVE skip_blank(_, _)
skip_blank(s, i) ==
  IF i > Len(s) THEN i
  ELSE IF s[i] \in {SP, TAB, NL} THEN skip_blank(s, i + 1)
  ELSE IF s[i] = HASH THEN
    LET nls == {k \in (i + 1)..Len(s) : s[k] = NL}
    IN  IF nls = {} THEN Len(s) + 1
        ELSE skip_blank(s, (CHOOSE k \in nls : \A m \in nls : k <= m) + 1)
  ELSE i

RECURSIVE shlex_words(_, _, _)
shlex_words(s, i, acc) ==
  LET j == skip_blank(s, i)
  IN  IF j > Len(s) THEN acc
      ELSE LET r == parse_word(s, j, <<>>)
           IN  IF r.ok
               THEN shlex_words(s, r.next,
                                [ok |-> TRUE, parts |-> Append(acc.parts, r.word)])
               ELSE [ok |-> FALSE, parts |-> <<>>]

\* Option<Vec<String>>: ok is FALSE for a tokenizer error (None).
shlex_split(s) == shlex_words(s, 1, [ok |-> TRUE, parts |-> <<>>])

\* ---------------------------------------- utils.rs: parse_agent_command
\* A variant that leaves the program among the default arguments.
parse_agent_command_args_kept(agent_str) ==
  LET split == shlex_split(agent_str)
      parts == split.parts
  IN  IF split.ok /\ parts # <<>>
      THEN <<parts[1], parts>>
      ELSE <<agent_str, <<>>>>

\* utils.rs:3-12: a pair <<program, default arguments>>.
parse_agent_command(agent_str) ==
  LET split == shlex_split(agent_str)
      parts == split.parts
  IN  IF split.ok /\ parts # <<>>
      THEN <<parts[1], SubSeq(parts, 2, Len(parts))>>
      ELSE <<agent_str, <<>>>>


\* ------------------------------------------------------------- alias maps
\* HashMap<String, String>: a function from the set of its keys.
EmptyMap == [k \in {} |-> <<>>]

\* A variant of insert that keeps the value of a key that is present.
insert_if_absent(m, k, v) ==
  [x \in (DOMAIN m) \cup {k} |-> IF x \in DOMAIN m THEN m[x] ELSE v]

\* HashMap::insert, which replaces the value of a key that is present
insert(m, k, v) == [x \in (DOMAIN m) \cup {k} |-> IF x = k THEN v ELSE m[x]]

\* A variant of remove that takes out nothing.
remove_nothing(m, k) == m

\* HashMap::remove, which takes out the one key
remove(m, k) == [x \in (DOMAIN m) \ {k} |-> m[x]]

\* The orders in which a HashMap's keys may be iterated: every one.
Orders(S) ==
  {o \in [1..Cardinality(S) -> S] :
     \A i, j \in 1..Cardinality(S) : i # j => o[i] # o[j]}

\* ------------------------------------------------------------------ files
\* A file of the configuration directory is absent, or holds a JSON object
\* (its members in file order, each a pair of escaped strings), or text that
\* is no JSON object (empty or cut short), or bytes that cannot be read as
\* text, or plain text (the agent file).
NoFile == [kind |-> "absent"]
Garbage == [kind |-> "garbage"]
Unreadable == [kind |-> "unreadable"]
JsonFile(members) == [kind |-> "json", members |-> members]
TextFile(text) == [kind |-> "text", text |-> text]

exists(file) == file.kind # "absent"

\* fs::read_to_string(..).unwrap_or_default(): the empty text on an error
read_to_string_or_default(file) ==
  IF file.kind = "unreadable" THEN Garbage ELSE file

\* serde_json's string escaping (to_string_pretty, config.rs:41)
escape_char(c) ==
  IF c = DQ THEN <<BS, DQ>>
  ELSE IF c = BS THEN <<BS, BS>>
  ELSE IF c = NL THEN <<BS, "n">>
  ELSE IF c = TAB THEN <<BS, "t">>
  ELSE <<c>>

format_escaped_str(s) == Concat([i \in 1..Len(s) |-> escape_char(s[i])])

\* serde_json::to_string_pretty of a map whose keys are iterated in `order`
to_string_pretty(aliases, order) ==
  JsonFile([i \in 1..Len(order) |->
              <<format_escaped_str(order[i]),
                format_escaped_str(aliases[order[i]])>>])

\* serde_json's reading of the text between two quotes (from_str,
\* config.rs:32): a bare quote or control character, or an unknown escape, is
\* an error.
\* The character read at place i of the text between two quotes: [ok, char,
\* next], next being the place after it
parse_char(e, i) ==
  LET bad == [ok |-> FALSE, char |-> "", next |-> i]
      got(c, n) == [ok |-> TRUE, char |-> c, next |-> n]
  IN  IF e[i] \in {DQ, NL, TAB} THEN bad
      ELSE IF e[i] # BS THEN got(e[i], i + 1)
      ELSE IF i + 1 > Len(e) THEN bad
      ELSE IF e[i + 1] \in {DQ, BS, "/"} THEN got(e[i + 1], i + 2)
      ELSE IF e[i + 1] = "n" THEN got(NL, i + 2)
      ELSE IF e[i + 1] = "t" THEN got(TAB, i + 2)
      ELSE bad

RECURSIVE parse_str(_, _, _)
parse_str(e, i, acc) ==
  IF i > Len(e) THEN [ok |-> TRUE, val |-> acc]
  ELSE IF parse_char(e, i).ok
    THEN parse_str(e, parse_char(e, i).next, Append(acc, parse_char(e, i).char))
  ELSE [ok |-> FALSE, val |-> <<>>]

\* serde_json::from_str::<HashMap<String, String>>: a later member of the
\* same key replaces an earlier one.
RECURSIVE from_members(_, _, _)
from_members(members, i, acc) ==
  IF i > Len(members) THEN [ok |-> TRUE, map |-> acc]
  ELSE LET k == parse_str(members[i][1], 1, <<>>)
           v == parse_str(members[i][2], 1, <<>>)
       IN  IF k.ok /\ v.ok
           THEN from_members(members, i + 1, insert(acc, k.val, v.val))
           ELSE [ok |-> FALSE, map |-> EmptyMap]

from_str(content) ==
  IF content.kind = "json" THEN from_members(content.members, 1, EmptyMap)
  ELSE [ok |-> FALSE, map |-> EmptyMap]

\* ------------------------------------------------------------- config.rs
\* A variant of load_aliases that trims every prompt it reads.
load_aliases_trimmed(file) ==
  IF exists(file)
  THEN LET r == from_str(read_to_string_or_default(file))
       IN  IF r.ok THEN [k \in DOMAIN r.map |-> trim(r.map[k])] ELSE EmptyMap
  ELSE EmptyMap

\* A variant of load_aliases that answers a corrupt file with one entry.
load_aliases_placeholder(file) ==
  IF exists(file)
  THEN LET r == from_str(read_to_string_or_default(file))
       IN  IF r.ok THEN r.map ELSE insert(EmptyMap, <<"d">>, <<>>)
  ELSE EmptyMap

\* config.rs:28-36
load_aliases(file) ==
  IF exists(file)
  THEN LET r == from_str(read_to_string_or_default(file))
       IN  IF r.ok THEN r.map ELSE EmptyMap
  ELSE EmptyMap

\* What writing a file can do: "ok"; "open_fail", ensure_config_dir fails or
\* fs::write cannot open the file, and nothing is written; "write_fail",
\* fs::write truncates the file and fails before it is whole.
IoOutcomes == {"ok", "open_fail", "write_fail"}

\* fs::write(path, content) when the directory exists
fs_write(file, content, io) ==
  IF io = "ok" THEN content
  ELSE IF io = "write_fail" THEN Garbage
  ELSE file

\* File::create inside fs::write: the file is there and empty
Truncated == TextFile(<<>>)

\* The length in bytes of what to_string_pretty gives: {} for no member, else
\* a line for each member, two spaces, the quoted key, a colon and a space,
\* the quoted value, with ",\n" between the lines, after "{\n" and before
\* "\n}".  Every character of the model's names and prompts is one byte.
RECURSIVE members_len(_)
members_len(members) ==
  IF members = <<>> THEN 0
  ELSE Len(members[1][1]) + Len(members[1][2]) + 8 + members_len(Tail(members))

\* The length of a file in bytes; text cut short has any length below that
\* of the whole text, of which the model keeps no count.
file_len(file) ==
  IF file.kind = "json"
  THEN (IF file.members = <<>> THEN 2
        ELSE 4 + members_len(file.members) + 2 * (Len(file.members) - 1))
  ELSE IF file.kind = "text" THEN Len(file.text)
  ELSE 0

\* A variant of write_at that also cuts the file to the text written.
write_at_cuts(file, content) == {content}

\* write_all inside fs::write, by a process that opened the file earlier:
\* the text goes to the start of the file as it is now and what lies beyond
\* the text stays, so a longer text written by another process meanwhile
\* leaves its tail after the closing brace.  The set of the files that can
\* result.
write_at(file, content) ==
  IF file.kind = "garbage" THEN {content, Garbage}
  ELSE IF file_len(content) >= file_len(file) THEN {content}
  ELSE {Garbage}

\* [ok, file]: the Result and the alias file afterwards
save_aliases(file, aliases, order, io) ==
  [ok |-> io = "ok", file |-> fs_write(file, to_string_pretty(aliases, order), io)]

Claude == <<"c", "l", "a", "u", "d", "e">>

\* read_to_string(..).unwrap_or_else(|_| "claude").trim()
get_agent(file) ==
  IF exists(file)
  THEN trim(IF file.kind = "text" THEN file.text ELSE Claude)
  ELSE Claude

\* A variant of set_agent that keeps an agent file that is already there.
set_agent_keeps_first(file, command, io) ==
  [ok |-> io = "ok",
   file |-> IF io = "open_fail" \/ exists(file) THEN file
            ELSE TextFile(IF io = "ok" THEN command ELSE <<>>)]

\* [ok, file]; a write that fails half way leaves the agent file empty
set_agent(file, command, io) ==
  [ok |-> io = "ok",
   file |-> IF io = "open_fail" THEN file
            ELSE TextFile(IF io = "ok" THEN command ELSE <<>>)]

\* A variant of create_aliases_backup that writes a backup of a file that
\* does not exist.
create_aliases_backup_always(file, backups, now, io) ==
  IF io # "ok" THEN [ok |-> FALSE, made |-> FALSE, backups |-> backups]
  ELSE [ok |-> TRUE, made |-> TRUE,
        backups |-> [backups EXCEPT ![now] = Garbage]]

\* A variant of create_aliases_backup that answers Ok(None) when the copy
\* fails.
create_aliases_backup_ignores_error(file, backups, now, io) ==
  IF ~exists(file) \/ io # "ok"
  THEN [ok |-> TRUE, made |-> FALSE, backups |-> backups]
  ELSE [ok |-> TRUE, made |-> TRUE,
        backups |-> [backups EXCEPT ![now] = file]]

\* [ok, made, backups]: Ok(Some(path)) has made = TRUE, Ok(None) has
\* ok = TRUE and made = FALSE.  backups maps a timestamp (the seconds that
\* get_current_datetime formats into the file name) to the copy's content.
\* fs::copy that fails half way leaves a copy that is cut short.
create_aliases_backup(file, backups, now, io) ==
  IF ~exists(file) THEN [ok |-> TRUE, made |-> FALSE, backups |-> backups]
  ELSE IF io = "open_fail" THEN [ok |-> FALSE, made |-> FALSE, backups |-> backups]
  ELSE IF io = "write_fail"
    THEN [ok |-> FALSE, made |-> FALSE, backups |-> [backups EXCEPT ![now] = Garbage]]
  ELSE [ok |-> TRUE, made |-> TRUE,
        backups |-> [backups EXCEPT ![now] = file]]


\* ---------------------------------------------------------- completion.rs
S_bash == <<"b", "a", "s", "h">>
S_zsh == <<"z", "s", "h">>
S_fish == <<"f", "i", "s", "h">>

\* Option<Shell> from the SHELL variable; "none" is None
detect_shell(shell_var) ==
  IF ~shell_var.set THEN "none"
  ELSE IF contains(shell_var.value, S_bash) THEN "Bash"
  ELSE IF contains(shell_var.value, S_zsh) THEN "Zsh"
  ELSE IF contains(shell_var.value, S_fish) THEN "Fish"
  ELSE "none"

\* The startup file of the detected shell is a sequence of blocks: "user"
\* for text that is not the tool's, "bytes" for bytes that are no UTF-8
\* text, "snippet" for one appended completion script, which holds the
\* substring _qwk_complete for every shell.
is_utf8(rc) == \A i \in 1..Len(rc.blocks) : rc.blocks[i] # "bytes"

\* A variant of is_completion_installed that never finds the snippet.
is_completion_installed_never(rc) == FALSE

\* completion.rs:120-132; fs::read_to_string(..).unwrap_or_default() is the
\* empty text when the file is no UTF-8 text
is_completion_installed(rc) ==
  /\ rc.present
  /\ is_utf8(rc)
  /\ \E i \in 1..Len(rc.blocks) : rc.blocks[i] = "snippet"

\* [ok, rc]
install_completion(rc, io) ==
  IF io = "ok"
  THEN [ok |-> TRUE, rc |-> [present |-> TRUE, blocks |-> Append(rc.blocks, "snippet")]]
  ELSE [ok |-> FALSE, rc |-> rc]

\* [ok, rc]
setup_completion_for_current_shell(shell_var, rc, io) ==
  IF detect_shell(shell_var) = "none" THEN [ok |-> FALSE, rc |-> rc]
  ELSE IF is_completion_installed(rc) THEN [ok |-> TRUE, rc |-> rc]
  ELSE install_completion(rc, io)

is_first_run(mk) == ~mk

\* the marker afterwards; fs::write(marker, "") may fail
mark_first_run_complete(mk, io) == IF io = "ok" THEN TRUE ELSE mk

\* A variant of handle_first_run that writes the marker when the setup
\* succeeded.
handle_first_run_marks_on_success(shell_var, mk, rc, fr) ==
  IF is_first_run(mk)
  THEN LET r == setup_completion_for_current_shell(shell_var, rc, fr[1])
       IN  [marker |-> IF r.ok THEN mark_first_run_complete(mk, fr[2]) ELSE mk,
            rc |-> r.rc]
  ELSE [marker |-> mk, rc |-> rc]

\* [marker, rc] after handle_first_run; fr = <<install, mark>> are the
\* outcomes of its two writes
handle_first_run(shell_var, mk, rc, fr) ==
  IF is_first_run(mk)
  THEN [marker |-> mark_first_run_complete(mk, fr[2]),
        rc |-> setup_completion_for_current_shell(shell_var, rc, fr[1]).rc]
  ELSE [marker |-> mk, rc |-> rc]

\* ----------------------------------------------------------------- utils.rs
to_lowercase(s) ==
  [i \in 1..Len(s) |->
     IF s[i] = "Y" THEN "y" ELSE IF s[i] = "E" THEN "e"
     ELSE IF s[i] = "S" THEN "s" ELSE IF s[i] = "N" THEN "n" ELSE s[i]]

\* A variant of confirm_reset that takes every answer beginning with y.
confirm_reset_starts_with_y(line) ==
  IF line.ok
  THEN starts_with(to_lowercase(trim(line.text)), <<"y">>)
  ELSE FALSE

\* line = [ok, text]: what read_line gave
confirm_reset(line) ==
  IF line.ok
  THEN LET input == to_lowercase(trim(line.text))
       IN  input = <<"y">> \/ input = <<"y", "e", "s">>
  ELSE FALSE

\* A character that takes two bytes in UTF-8, as e with an acute accent
EACUTE == "e'"

\* char::len_utf8
len_utf8(c) == IF c = EACUTE THEN 2 ELSE 1

\* str::len: the length in bytes
RECURSIVE byte_len(_)
byte_len(s) == IF s = <<>> THEN 0 ELSE len_utf8(Head(s)) + byte_len(Tail(s))

\* [..].join(" ")
RECURSIVE join(_)
join(words) ==
  IF words = <<>> THEN <<>>
  ELSE IF Len(words) = 1 THEN words[1]
  ELSE words[1] \o <<SP>> \o join(Tail(words))

\* utils.rs:16-20: newlines and runs of whitespace made single spaces
cleaned_of(prompt) ==
  join(split_whitespace([i \in 1..Len(prompt) |-> IF prompt[i] = NL THEN SP ELSE prompt[i]]))

\* &s[..n]: [ok, text], the characters of the first n bytes; the slice
\* panics when byte n is inside a character.
slice_to(s, n) ==
  LET ends == {k \in 0..Len(s) : byte_len(SubSeq(s, 1, k)) = n}
  IN  [ok |-> ends # {},
       text |-> IF ends = {} THEN <<>> ELSE SubSeq(s, 1, CHOOSE k \in ends : TRUE)]

\* usize::saturating_sub
saturating_sub(a, b) == IF a >= b THEN a - b ELSE 0

Ellipsis == <<".", ".", ".">>

\* A variant of truncate_prompt that cuts at the limit.
truncate_prompt_cut_at_limit(prompt, max_length) ==
  LET cleaned == cleaned_of(prompt)
      cut == slice_to(cleaned, max_length)
  IN  IF byte_len(cleaned) <= max_length THEN [ok |-> TRUE, text |-> cleaned]
      ELSE [ok |-> cut.ok, text |-> IF cut.ok THEN cut.text \o Ellipsis ELSE <<>>]

\* utils.rs:14-27: [ok, text]; ok is FALSE when the slice panics
truncate_prompt(prompt, max_length) ==
  LET cleaned == cleaned_of(prompt)
      cut == slice_to(cleaned, saturating_sub(max_length, 3))
  IN  IF byte_len(cleaned) <= max_length THEN [ok |-> TRUE, text |-> cleaned]
      ELSE [ok |-> cut.ok, text |-> IF cut.ok THEN cut.text \o Ellipsis ELSE <<>>]

\* [ok, text]: io::Result<String>
read_prompt_from_stdin(stdin) ==
  IF stdin.ok THEN [ok |-> TRUE, text |-> trim(stdin.text)]
  ELSE [ok |-> FALSE, text |-> <<>>]


\* -------------------------------------------------------------------- cli.rs
Qwk == <<"q", "w", "k">>
DashDash == <<"-", "-">>
F_set == <<"-", "-", "s", "e", "t">>
F_agent == <<"-", "-", "a", "g", "e", "n", "t">>
F_list == <<"-", "-", "l", "i", "s", "t">>
F_remove == <<"-", "-", "r", "e", "m", "o", "v", "e">>
F_reset == <<"-", "-", "r", "e", "s", "e", "t">>
F_complete == <<"-", "-", "c", "o", "m", "p", "l", "e", "t", "e">>
F_setup_completion ==
  <<"-", "-", "s", "e", "t", "u", "p", "-", "c", "o", "m", "p", "l", "e", "t", "i", "o", "n">>
F_help == <<"-", "-", "h", "e", "l", "p">>
S_complete == <<"c", "o", "m", "p", "l", "e", "t", "e">>

Absent == [some |-> FALSE, val |-> <<>>]
Some(v) == [some |-> TRUE, val |-> v]

\* Cli::parse() on the argument shapes the model draws: the command, its
\* values and the positional shortcut.  "Help" is clap's own --help (exit
\* 0) and "Error" its usage error (exit 2); a value that starts with a
\* hyphen is taken for a flag and refused, unless it comes after "--".
Cli_parse(args) ==
  LET n == Len(args)
      value(v) == ~(Len(v) > 0 /\ v[1] = "-")
      cmd(c, a, p, sh) == [command |-> c, alias |-> a, prompt |-> p, shortcut |-> sh]
      error == cmd("Error", <<>>, Absent, Absent)
  IN  IF n = 1 THEN cmd("None", <<>>, Absent, Absent)
      ELSE IF args[2] = F_set THEN
        IF n = 3 /\ value(args[3]) THEN cmd("Set", args[3], Absent, Absent)
        ELSE IF n = 4 /\ value(args[3]) /\ value(args[4])
          THEN cmd("Set", args[3], Some(args[4]), Absent)
        ELSE IF n = 4 /\ args[3] = DashDash THEN cmd("Set", args[4], Absent, Absent)
        ELSE IF n = 5 /\ args[3] = DashDash
          THEN cmd("Set", args[4], Some(args[5]), Absent)
        ELSE error
      ELSE IF args[2] = F_agent THEN
        IF n = 3 /\ value(args[3]) THEN cmd("Agent", args[3], Absent, Absent) ELSE error
      ELSE IF args[2] = F_list THEN
        IF n = 2 THEN cmd("List", <<>>, Absent, Absent) ELSE error
      ELSE IF args[2] = F_remove THEN
        IF n = 3 /\ value(args[3]) THEN cmd("Remove", args[3], Absent, Absent) ELSE error
      ELSE IF args[2] = F_reset THEN
        IF n = 2 THEN cmd("Reset", <<>>, Absent, Absent) ELSE error
      ELSE IF args[2] = F_complete THEN
        IF n = 2 THEN cmd("Complete", <<>>, Absent, Absent)
        ELSE IF n = 3 /\ value(args[3]) THEN cmd("Complete", <<>>, Some(args[3]), Absent)
        ELSE IF n = 3 /\ args[3] = DashDash THEN cmd("Complete", <<>>, Absent, Absent)
        ELSE IF n = 4 /\ args[3] = DashDash
          THEN cmd("Complete", <<>>, Some(args[4]), Absent)
        ELSE error
      ELSE IF args[2] = F_setup_completion THEN
        IF n = 2 THEN cmd("SetupCompletion", <<>>, Absent, Absent) ELSE error
      ELSE IF args[2] = F_help THEN cmd("Help", <<>>, Absent, Absent)
      ELSE IF args[2] = DashDash THEN
        IF n = 2 THEN cmd("None", <<>>, Absent, Absent)
        ELSE IF n = 3 THEN cmd("None", <<>>, Absent, Some(args[3]))
        ELSE error
      ELSE error

\* The characters of names and flags in the order of their code points
CodePoints ==
  << TAB, NL, SP, DQ, HASH, SQ, "-", ".", "/", BS,
     "a", "b", "c", "d", "e", "f", "g", "h", "i", "j", "k", "l", "m",
     "n", "o", "p", "q", "r", "s", "t", "u", "v", "w", "x", "y", "z" >>

code_point(c) == CHOOSE i \in 1..Len(CodePoints) : CodePoints[i] = c

\* Ord for str: a <= b, character by character
RECURSIVE str_le(_, _)
str_le(a, b) ==
  IF a = <<>> THEN TRUE
  ELSE IF b = <<>> THEN FALSE
  ELSE IF Head(a) = Head(b) THEN str_le(Tail(a), Tail(b))
  ELSE code_point(Head(a)) < code_point(Head(b))

\* v put into the sorted sequence at its place
RECURSIVE sorted_insert(_, _)
sorted_insert(sorted, v) ==
  IF sorted = <<>> THEN <<v>>
  ELSE IF str_le(v, Head(sorted)) THEN <<v>> \o sorted
  ELSE <<Head(sorted)>> \o sorted_insert(Tail(sorted), v)

\* Vec::sort
RECURSIVE sort(_)
sort(v) == IF v = <<>> THEN <<>> ELSE sorted_insert(sort(Tail(v)), Head(v))

\* Vec::retain(|c| c.starts_with(p))
RECURSIVE retain_starts_with(_, _)
retain_starts_with(v, p) ==
  IF v = <<>> THEN <<>>
  ELSE (IF starts_with(Head(v), p) THEN <<Head(v)>> ELSE <<>>)
       \o retain_starts_with(Tail(v), p)

\* completion.rs:20-28
commands == <<F_set, F_agent, F_list, F_remove, F_reset, F_setup_completion, F_help>>

\* A variant of generate_completions that prints without sorting.
generate_completions_unsorted(aliases, order, partial) ==
  LET completions == order \o commands
  IN  IF partial.some /\ partial.val # <<>>
      THEN retain_starts_with(completions, partial.val)
      ELSE completions

\* A variant of generate_completions that keeps the names equal to the
\* partial input.
generate_completions_exact(aliases, order, partial) ==
  LET completions == order \o commands
  IN  sort(IF partial.some /\ partial.val # <<>>
           THEN SelectSeq(completions, LAMBDA c : c = partial.val)
           ELSE completions)

\* completion.rs:15-50: the lines printed; `order` is the order in which
\* aliases.keys() gives the names
generate_completions(aliases, order, partial) ==
  LET completions == order \o commands
      retained == IF partial.some /\ partial.val # <<>>
                  THEN retain_starts_with(completions, partial.val)
                  ELSE completions
  IN  sort(retained)

\* The width that list_aliases gives to truncate_prompt (cli.rs:101)
ListWidth == 60

\* cli.rs:100-103: the lines printed for the names in their order, each the
\* name and its truncated prompt; ok is FALSE when truncate_prompt aborts, and
\* the lines before it are those printed until then.
RECURSIVE list_lines(_, _, _)
list_lines(aliases, names, acc) ==
  IF names = <<>> THEN [ok |-> TRUE, lines |-> acc]
  ELSE LET truncated_prompt == truncate_prompt(aliases[Head(names)], ListWidth)
       IN  IF truncated_prompt.ok
           THEN list_lines(aliases, Tail(names),
                           Append(acc, <<Head(names), truncated_prompt.text>>))
           ELSE [ok |-> FALSE, lines |-> acc]

\* A variant of list_aliases that prints every prompt whole.
list_aliases_untruncated(aliases) ==
  LET sorted_aliases == sort(CHOOSE o \in Orders(DOMAIN aliases) : TRUE)
  IN  [ok |-> TRUE,
       lines |-> [i \in 1..Len(sorted_aliases) |->
                    <<sorted_aliases[i], aliases[sorted_aliases[i]]>>]]

\* list_aliases (cli.rs:86-104) after its heading: the names sorted, a line
\* for each
list_aliases(aliases) ==
  LET sorted_aliases == sort(CHOOSE o \in Orders(DOMAIN aliases) : TRUE)
  IN  list_lines(aliases, sorted_aliases, <<>>)

\* A variant of position that finds the last "--".
position_last(args) ==
  LET hits == {i \in 1..Len(args) : args[i] = DashDash}
  IN  IF hits = {} THEN 0 ELSE CHOOSE i \in hits : \A j \in hits : i >= j

\* args.iter().position(|arg| arg == "--"): 0 for None, else the 1-based
\* index of the first "--"
position(args) ==
  LET hits == {i \in 1..Len(args) : args[i] = DashDash}
  IN  IF hits = {} THEN 0 ELSE CHOOSE i \in hits : \A j \in hits : i <= j

\* A variant of per_call_args without the usage error.
per_call_args_lenient(args) ==
  [usage_error |-> FALSE,
   args |-> IF Len(args) > 2 /\ position(args) # 0
            THEN SubSeq(args, position(args) + 1, Len(args)) ELSE <<>>]

\* cli.rs:113-127: [usage_error, args], the per-call agent arguments
per_call_args(args) ==
  [usage_error |-> Len(args) > 2 /\ position(args) = 0,
   args |-> IF Len(args) > 2 /\ position(args) # 0
            THEN SubSeq(args, position(args) + 1, Len(args)) ELSE <<>>]

\* A variant of command_args that passes the prompt word by word.
command_args_prompt_split(agent_default_args, per_call, prompt) ==
  agent_default_args \o per_call \o split_whitespace(prompt)

\* cli.rs:129-137: the arguments given to Command, in the order of the arg calls
command_args(agent_default_args, per_call, prompt) ==
  agent_default_args \o per_call \o <<prompt>>

\* The outcome of Command::status(): the spawn fails, or the child runs and
\* ends with an exit code, or without one (ended by a signal).
NoCode == [some |-> FALSE, val |-> 0]

NoChild == [spawn |-> "none", code |-> NoCode]

\* A variant of exit_of_status that answers 1 unless the child ended with 0.
exit_of_status_flattened(child) ==
  IF child.spawn = "ok"
  THEN (IF child.code.some /\ child.code.val = 0 THEN 0 ELSE 1)
  ELSE 1

\* cli.rs:139-149: the tool's exit code after Command::status()
exit_of_status(child) ==
  IF child.spawn = "ok"
  THEN (IF child.code.some THEN child.code.val ELSE 0)
  ELSE 1

\* A variant of execute_shortcut that dispatches an unknown name with an
\* empty prompt.
execute_shortcut_default_prompt(shortcut, args, aliases, agent_str, child) ==
  LET parsed == parse_agent_command(agent_str)
      per_call == per_call_args(args)
      prompt == IF shortcut \in DOMAIN aliases THEN aliases[shortcut] ELSE <<>>
  IN  IF per_call.usage_error
      THEN [found |-> shortcut \in DOMAIN aliases, spawn_tried |-> FALSE,
            program |-> <<>>, argv |-> <<>>, exit |-> 1]
      ELSE [found |-> shortcut \in DOMAIN aliases, spawn_tried |-> TRUE,
            program |-> parsed[1],
            argv |-> command_args(parsed[2], per_call.args, prompt),
            exit |-> exit_of_status(child)]

\* cli.rs:106-154, execute_shortcut up to its exit: what it looked up, whether
\* it called Command::status(), with which program and arguments, and the
\* exit code.
execute_shortcut(shortcut, args, aliases, agent_str, child) ==
  LET parsed == parse_agent_command(agent_str)
      per_call == per_call_args(args)
      res(found, tried, argv, code) ==
        [found |-> found, spawn_tried |-> tried,
         program |-> IF tried THEN parsed[1] ELSE <<>>,
         argv |-> argv, exit |-> code]
  IN  IF shortcut \in DOMAIN aliases THEN
        IF per_call.usage_error THEN res(TRUE, FALSE, <<>>, 1)
        ELSE res(TRUE, TRUE,
                 command_args(parsed[2], per_call.args, aliases[shortcut]),
                 exit_of_status(child))
      ELSE res(FALSE, FALSE, <<>>, 1)

\* A variant of runs_first_run that skips no invocation.
runs_first_run_always(args) == TRUE

\* cli.rs:160: the first-run procedure is skipped for completion calls
runs_first_run(args) == Len(args) < 2 \/ ~contains(args[2], S_complete)

\* A variant of is_direct_shortcut that tests for one hyphen.
is_direct_shortcut_single_dash(args) == Len(args) >= 2 /\ ~starts_with(args[2], <<"-">>)

\* cli.rs:165: the direct shortcut path
is_direct_shortcut(args) == Len(args) >= 2 /\ ~starts_with(args[2], DashDash)

\* ------------------------------------------------------------------ inputs
MaxTime == 1
MaxCode == 2
MaxBlocks == 3

Foo == <<"f", "o", "o">>
SetName == <<"s", "e", "t">>
Bar == <<"b", "a", "r">>
Hi == <<"h", "i">>
Tricky == <<"a", SP, DQ, BS, NL>>
Extra == <<"x">>
Flag == <<"-", "v">>

Names == {Foo, SetName}
Prompts == {Hi, Tricky}
AgentCommands ==
  { <<"a", "i", SP, "-", "f">>,                  \* ai -f
    <<SP, DQ, "a", SP, "i", DQ, SP, "x", NL>>,   \* "a i" x, blanks around it
    <<SQ, "a", "i">> }                           \* 'ai, the quote left open

\* what follows the shortcut name on the command line
Tails ==
  { <<>>, <<Extra>>, <<DashDash>>, <<DashDash, Flag>>,
    <<Extra, DashDash, Flag>>, <<DashDash, Flag, DashDash, Extra>> }

\* Foo with every tail, an alias named like a subcommand, a name that is
\* never set, and a word with one hyphen
ShortcutInvocations ==
  {<<Qwk, Foo>> \o t : t \in Tails}
  \cup {<<Qwk, SetName>>, <<Qwk, Flag>>}
  \cup {<<Qwk, Bar>> \o t : t \in {<<>>, <<Extra>>, <<DashDash, Flag>>}}

HelpInvocations == {<<Qwk>>, <<Qwk, DashDash>>}
PositionalInvocations == {<<Qwk, DashDash, Foo>>}
ClapExitInvocations ==
  {<<Qwk, F_help>>, <<Qwk, F_list, Extra>>, <<Qwk, <<"-", "-", "z">>>>, <<Qwk, F_set>>}
SetInvocations ==
  {<<Qwk, F_set, n, p>> : n \in Names, p \in Prompts}
  \cup {<<Qwk, F_set, n>> : n \in Names}
AgentInvocations == {<<Qwk, F_agent, a>> : a \in AgentCommands}
RemoveInvocations == {<<Qwk, F_remove, n>> : n \in Names \cup {Bar}}
CompleteInvocations == {<<Qwk, F_complete>>, <<Qwk, F_complete, <<"f">>>>}
ResetInvocations == {<<Qwk, F_reset>>}

\* The command lines of the main specification
Invocations ==
  ShortcutInvocations \cup HelpInvocations \cup PositionalInvocations
  \cup ClapExitInvocations \cup SetInvocations \cup AgentInvocations
  \cup RemoveInvocations \cup CompleteInvocations
  \cup {<<Qwk, F_list>>, <<Qwk, F_setup_completion>>}

\* A shortcut name that holds the word "complete"
Completer == S_complete \o <<"r">>

\* The command lines of the specification of Reset
ResetRunInvocations ==
  ResetInvocations
  \cup { <<Qwk, F_set, Foo, Hi>>, <<Qwk, Foo>>, <<Qwk, F_list>>,
         <<Qwk, F_remove, Foo>>, <<Qwk, F_complete>>,
         <<Qwk, F_agent, <<"a", "i", SP, "-", "f">>>> }

\* The command lines of the specification of the first run
SetupInvocations ==
  ResetInvocations \cup CompleteInvocations
  \cup { <<Qwk>>, <<Qwk, Foo>>, <<Qwk, Completer>>, <<Qwk, F_list>>,
         <<Qwk, F_setup_completion>> }

\* The command lines of the specification of Complete: partial inputs that
\* are absent, empty, the start of a name, of a flag, of both or of nothing,
\* and an alias named like a flag
PartialInputs == {<<>>, <<"f">>, <<"s">>, Foo, Bar}
HyphenPartialInputs == {<<"-", "-", "s">>, <<"-", "-", "s", "e", "t">>, <<"-">>, F_help}

CompleteRunInvocations ==
  CompleteInvocations
  \cup {<<Qwk, F_complete, p>> : p \in PartialInputs \cup HyphenPartialInputs}
  \cup {<<Qwk, F_complete, DashDash>>}
  \cup {<<Qwk, F_complete, DashDash, p>> : p \in HyphenPartialInputs}
  \cup { <<Qwk, F_set, Foo, Hi>>, <<Qwk, F_set, SetName, Hi>>,
         <<Qwk, F_set, DashDash, F_set, Hi>>, <<Qwk, F_set, F_set, Hi>>,
         <<Qwk, F_remove, Foo>> }

\* The alias name of `qwk --set "" hi`: the empty string
NoName == <<>>

\* The command lines of the specification of the alias store: Set, Remove
\* and Reset with a name and with the empty name
StoreInvocations ==
  ResetInvocations
  \cup {<<Qwk, F_set, n, Hi>> : n \in {Foo, NoName}}
  \cup {<<Qwk, F_set, n>> : n \in {Foo, NoName}}
  \cup {<<Qwk, F_remove, n>> : n \in {Foo, NoName}}

\* The command lines of the two invocations that run at the same time: texts
\* of equal and of different lengths
RaceInvocations ==
  { <<Qwk, F_set, Foo, Hi>>, <<Qwk, F_set, SetName, Hi>>,
    <<Qwk, F_set, Foo, Tricky>>, <<Qwk, F_remove, Foo>> }

\* Prompts of two-byte characters that take more bytes than the width of
\* List: in Wide the byte where truncate_prompt cuts is the second of a
\* character, in Accented, which begins with a one-byte character, it is the
\* first
Wide == [i \in 1..(ListWidth \div 2 + 1) |-> EACUTE]
Accented == <<"a">> \o [i \in 1..(ListWidth \div 2) |-> EACUTE]

\* The command lines of the specification of List
ListInvocations ==
  { <<Qwk, F_list>>, <<Qwk, F_remove, Foo>>, <<Qwk, F_set, Foo, Hi>>,
    <<Qwk, F_set, Foo, Wide>>, <<Qwk, F_set, SetName, Accented>>,
    <<Qwk, F_set, SetName, Tricky>> }

CommandLines ==
  Invocations \cup ResetRunInvocations \cup SetupInvocations
  \cup CompleteRunInvocations \cup StoreInvocations \cup ListInvocations

Children ==
  {[spawn |-> "fail", code |-> NoCode], [spawn |-> "ok", code |-> NoCode]}
  \cup {[spawn |-> "ok", code |-> [some |-> TRUE, val |-> c]] : c \in 0..MaxCode}

Stdins == {[ok |-> TRUE, text |-> <<SP, "h", "i", NL>>], [ok |-> FALSE, text |-> <<>>]}

NoLine == [ok |-> FALSE, text |-> <<>>]

Lines ==
  {[ok |-> TRUE, text |-> <<"y", NL>>], [ok |-> TRUE, text |-> <<SP, "Y", "E", "S", NL>>],
   [ok |-> TRUE, text |-> <<"n", NL>>], [ok |-> TRUE, text |-> <<>>],
   [ok |-> TRUE, text |-> <<"y", "e", NL>>], NoLine}

Zsh == [set |-> TRUE, value |-> <<"/", "b", "i", "n", "/", "z", "s", "h">>]
Bash == [set |-> TRUE, value |-> <<"/", "b", "i", "n", "/", "b", "a", "s", "h">>]
Fish == [set |-> TRUE, value |-> <<"/", "b", "i", "n", "/", "f", "i", "s", "h">>]
Sh == [set |-> TRUE, value |-> <<"/", "b", "i", "n", "/", "s", "h">>]
NoShell == [set |-> FALSE, value |-> <<>>]
Shells == {Zsh, Bash, Fish, Sh, NoShell}

\* The startup file before the tool first runs: absent, the user's text,
\* the user's text with the snippet already in it, or text with bytes that
\* are no UTF-8
RcFiles ==
  { [present |-> FALSE, blocks |-> <<>>],
    [present |-> TRUE, blocks |-> <<"user">>],
    [present |-> TRUE, blocks |-> <<"user", "snippet">>],
    [present |-> TRUE, blocks |-> <<"bytes">>] }

\* The outcomes of the two writes of the first-run step.  The stores do not
\* depend on them: Spec lets both succeed, SpecSetup lets each fail.
NoFaults == {"ok"}
Faults == {"ok", "fail"}

\* ------------------------------------------------------------------- state
VARIABLES
  aliasFile,   \* ~/.config/qwk/aliases.json
  agentFile,   \* ~/.config/qwk/agent
  backups,     \* aliases_backup_<timestamp>.json, by timestamp
  clock,       \* the latest time the tool has read
  marker,      \* whether .first_run_complete exists
  rcFile,      \* the startup file of the detected shell
  shellVar,    \* the SHELL variable
  inv,         \* what the last invocation did
  probe,       \* a pure function applied to an input (SpecParse)
  procs,       \* the invocations that run at the same time (SpecRace)
  scope        \* which command lines and write faults the run draws from

vars ==
  <<aliasFile, agentFile, backups, clock, marker, rcFile, shellVar, inv, probe, procs, scope>>

\* The command lines and the outcomes of the first-run writes that a
\* behaviour draws from; scope never changes.
ScopeInvocations ==
  IF scope = "main" THEN Invocations
  ELSE IF scope = "reset" THEN ResetRunInvocations
  ELSE IF scope = "setup" THEN SetupInvocations
  ELSE IF scope = "complete" THEN CompleteRunInvocations
  ELSE IF scope = "store" THEN StoreInvocations
  ELSE IF scope = "race" THEN RaceInvocations
  ELSE IF scope = "list" THEN ListInvocations
  ELSE {}

ScopeFaults == IF scope = "setup" THEN Faults ELSE NoFaults

NoProbe == [fn |-> "none", input |-> <<>>, output |-> <<>>]

\* Two invocations of the tool that run at the same time.  Each is at the
\* start of run, or has loaded the alias map and changed it, or has opened
\* the alias file for writing, or is done; log lists what they did in the
\* order they did it.
Procs == {1, 2}

Waiting ==
  [pc |-> "start", args |-> <<>>, loaded |-> EmptyMap, aliases |-> EmptyMap,
   content |-> NoFile, exit |-> 0]

NoProcs == [run |-> [p \in Procs |-> Waiting], log |-> <<>>]

\* The record of an invocation that did nothing but start.
Started(cmd, args) ==
  [cmd |-> cmd, args |-> args, exit |-> 0, first_run |-> runs_first_run(args),
   loaded |-> FALSE, loaded_map |-> EmptyMap,
   save_tried |-> FALSE, saved |-> FALSE, saved_map |-> EmptyMap,
   found |-> FALSE, spawn_tried |-> FALSE, program |-> <<>>, argv |-> <<>>,
   child |-> NoChild, prompt |-> <<>>, confirmed |-> FALSE, backup_made |-> FALSE,
   io_error |-> FALSE, answer |-> NoLine, printed |-> <<>>,
   mark_failed |-> FALSE]

\* The record of an invocation after its first-run step, whose writes had
\* the outcomes fr: mark_failed when the marker was to be written and was not.
StartedRun(cmd, args, fr) ==
  [Started(cmd, args) EXCEPT
     !.mark_failed = runs_first_run(args) /\ is_first_run(marker) /\ fr[2] # "ok"]

Init ==
  /\ aliasFile \in {NoFile, Garbage, Unreadable}
  /\ agentFile = NoFile
  /\ backups = [t \in 0..MaxTime |-> NoFile]
  /\ clock = 0
  /\ marker = FALSE
  /\ rcFile = [present |-> FALSE, blocks |-> <<>>]
  /\ shellVar = Zsh
  /\ inv = [Started("none", <<>>) EXCEPT !.first_run = FALSE]
  /\ probe = NoProbe
  /\ procs = NoProcs
  /\ scope = "main"

\* run, cli.rs:159-162: the marker and the startup file after the first-run
\* step of an invocation
AfterFirstRun(args, fr) ==
  IF runs_first_run(args)
  THEN handle_first_run(shellVar, marker, rcFile, fr)
  ELSE [marker |-> marker, rc |-> rcFile]

\* The outcomes of the first-run writes that the invocation can meet, each
\* among `outcomes`.
FirstRunOutcomes(outcomes) == outcomes \X outcomes

FirstRunInputs(args, outcomes) ==
  IF runs_first_run(args) /\ is_first_run(marker)
  THEN FirstRunOutcomes(outcomes)
  ELSE {<<"ok", "ok">>}

FirstRunStep(args, fr) ==
  \E first \in {AfterFirstRun(args, fr)} :
    /\ Len(first.rc.blocks) <= MaxBlocks
    /\ marker' = first.marker
    /\ rcFile' = first.rc

\* ----------------------------------------------------------------- actions
\* Each action is one invocation of the tool, run (cli.rs:156-278), for the
\* command lines that take one branch of it.  A value computed once by the
\* code is bound once, as the only member of a set.

\* run with a first argument that does not begin with "--" (cli.rs:165-168):
\* execute_shortcut, which always exits.
Shortcut ==
  \E args \in CommandLines, fr \in FirstRunOutcomes(Faults) :
    /\ args \in ScopeInvocations
    /\ fr \in FirstRunInputs(args, ScopeFaults)
    /\ is_direct_shortcut(args)
    /\ \E aliases \in {load_aliases(aliasFile)}, agent_str \in {get_agent(agentFile)} :
       \E dry \in {execute_shortcut(args[2], args, aliases, agent_str, NoChild)} :
       \E child \in (IF dry.spawn_tried THEN Children ELSE {NoChild}) :
       \E r \in {execute_shortcut(args[2], args, aliases, agent_str, child)} :
         /\ FirstRunStep(args, fr)
         /\ inv' = [StartedRun("shortcut", args, fr) EXCEPT
                      !.loaded = TRUE, !.loaded_map = aliases,
                      !.found = r.found, !.spawn_tried = r.spawn_tried,
                      !.program = r.program, !.argv = r.argv,
                      !.child = child, !.exit = r.exit]
    /\ UNCHANGED <<aliasFile, agentFile, backups, clock, shellVar, probe, procs, scope>>

\* run with no command and no positional (cli.rs:266-275): the help text.
Help ==
  \E args \in CommandLines, fr \in FirstRunOutcomes(Faults) :
    /\ args \in ScopeInvocations
    /\ fr \in FirstRunInputs(args, ScopeFaults)
    /\ ~is_direct_shortcut(args)
    /\ \E cli \in {Cli_parse(args)} :
         /\ cli.command = "None"
         /\ ~cli.shortcut.some
    /\ FirstRunStep(args, fr)
    /\ inv' = StartedRun("help", args, fr)
    /\ UNCHANGED <<aliasFile, agentFile, backups, clock, shellVar, probe, procs, scope>>

\* run with a positional that reached clap, as in `qwk -- foo`
\* (cli.rs:267-270)
Positional ==
  \E args \in CommandLines, fr \in FirstRunOutcomes(Faults) :
    /\ args \in ScopeInvocations
    /\ fr \in FirstRunInputs(args, ScopeFaults)
    /\ ~is_direct_shortcut(args)
    /\ \E cli \in {Cli_parse(args)} :
         /\ cli.command = "None"
         /\ cli.shortcut.some
    /\ FirstRunStep(args, fr)
    /\ inv' = [StartedRun("positional", args, fr) EXCEPT !.exit = 1]
    /\ UNCHANGED <<aliasFile, agentFile, backups, clock, shellVar, probe, procs, scope>>

\* Cli::parse() ends the process itself (cli.rs:171): --help with 0, a
\* usage error with 2.
ClapExit ==
  \E args \in CommandLines, fr \in FirstRunOutcomes(Faults) :
    /\ args \in ScopeInvocations
    /\ fr \in FirstRunInputs(args, ScopeFaults)
    /\ ~is_direct_shortcut(args)
    /\ \E cli \in {Cli_parse(args)} :
         /\ cli.command \in {"Help", "Error"}
         /\ FirstRunStep(args, fr)
         /\ inv' = IF cli.command = "Help"
                   THEN StartedRun("clap_help", args, fr)
                   ELSE [StartedRun("clap_error", args, fr) EXCEPT !.exit = 2]
    /\ UNCHANGED <<aliasFile, agentFile, backups, clock, shellVar, probe, procs, scope>>

\* Commands::Set (cli.rs:174-196)
CmdSet ==
  \E args \in CommandLines, fr \in FirstRunOutcomes(Faults) :
    /\ args \in ScopeInvocations
    /\ fr \in FirstRunInputs(args, ScopeFaults)
    /\ ~is_direct_shortcut(args)
    /\ \E cli \in {Cli_parse(args)} :
         /\ cli.command = "Set"
         /\ FirstRunStep(args, fr)
         /\ \E stdin \in (IF cli.prompt.some THEN {[ok |-> TRUE, text |-> <<>>]} ELSE Stdins) :
            \E read \in {IF cli.prompt.some THEN [ok |-> TRUE, text |-> cli.prompt.val]
                         ELSE read_prompt_from_stdin(stdin)} :
              IF ~read.ok
              THEN /\ inv' = [StartedRun("set", args, fr) EXCEPT !.exit = 1]
                   /\ UNCHANGED aliasFile
              ELSE \E loaded \in {load_aliases(aliasFile)} :
                   \E aliases \in {insert(loaded, cli.alias, read.text)} :
                   \E io \in IoOutcomes, order \in Orders(DOMAIN aliases) :
                   \E w \in {save_aliases(aliasFile, aliases, order, io)} :
                     /\ aliasFile' = w.file
                     /\ inv' = [StartedRun("set", args, fr) EXCEPT
                                  !.loaded = TRUE, !.loaded_map = loaded,
                                  !.prompt = read.text,
                                  !.save_tried = TRUE, !.saved = w.ok,
                                  !.saved_map = aliases,
                                  !.exit = IF w.ok THEN 0 ELSE 1]
    /\ UNCHANGED <<agentFile, backups, clock, shellVar, probe, procs, scope>>

\* A variant of CmdAgent that also removes the alias file.
CmdAgentClearsAliases ==
  \E args \in CommandLines, fr \in FirstRunOutcomes(Faults) :
    /\ args \in ScopeInvocations
    /\ fr \in FirstRunInputs(args, ScopeFaults)
    /\ ~is_direct_shortcut(args)
    /\ \E cli \in {Cli_parse(args)}, io \in IoOutcomes :
         /\ cli.command = "Agent"
         /\ FirstRunStep(args, fr)
         /\ \E w \in {set_agent(agentFile, cli.alias, io)} :
              /\ agentFile' = w.file
              /\ aliasFile' = NoFile
              /\ inv' = [StartedRun("agent", args, fr) EXCEPT !.exit = IF w.ok THEN 0 ELSE 1]
    /\ UNCHANGED <<backups, clock, shellVar, probe, procs, scope>>

\* Commands::Agent (cli.rs:198-205)
CmdAgent ==
  \E args \in CommandLines, fr \in FirstRunOutcomes(Faults) :
    /\ args \in ScopeInvocations
    /\ fr \in FirstRunInputs(args, ScopeFaults)
    /\ ~is_direct_shortcut(args)
    /\ \E cli \in {Cli_parse(args)}, io \in IoOutcomes :
         /\ cli.command = "Agent"
         /\ FirstRunStep(args, fr)
         /\ \E w \in {set_agent(agentFile, cli.alias, io)} :
              /\ agentFile' = w.file
              /\ inv' = [StartedRun("agent", args, fr) EXCEPT !.exit = IF w.ok THEN 0 ELSE 1]
    /\ UNCHANGED <<aliasFile, backups, clock, shellVar, probe, procs, scope>>

\* Commands::List (cli.rs:207-209, list_aliases cli.rs:86-104); a panic ends
\* the process with the exit code 101
CmdList ==
  \E args \in CommandLines, fr \in FirstRunOutcomes(Faults) :
    /\ args \in ScopeInvocations
    /\ fr \in FirstRunInputs(args, ScopeFaults)
    /\ ~is_direct_shortcut(args)
    /\ Cli_parse(args).command = "List"
    /\ FirstRunStep(args, fr)
    /\ \E aliases \in {load_aliases(aliasFile)} :
       \E out \in {list_aliases(aliases)} :
         inv' = [StartedRun("list", args, fr) EXCEPT
                   !.loaded = TRUE, !.loaded_map = aliases,
                   !.printed = out.lines,
                   !.exit = IF out.ok THEN 0 ELSE 101]
    /\ UNCHANGED <<aliasFile, agentFile, backups, clock, shellVar, probe, procs, scope>>

\* Commands::Complete (cli.rs:211-213, generate_completions)
CmdComplete ==
  \E args \in CommandLines, fr \in FirstRunOutcomes(Faults) :
    /\ args \in ScopeInvocations
    /\ fr \in FirstRunInputs(args, ScopeFaults)
    /\ ~is_direct_shortcut(args)
    /\ \E cli \in {Cli_parse(args)}, aliases \in {load_aliases(aliasFile)} :
         /\ cli.command = "Complete"
         /\ FirstRunStep(args, fr)
         /\ \E order \in Orders(DOMAIN aliases) :
              inv' = [StartedRun("complete", args, fr) EXCEPT
                        !.loaded = TRUE, !.loaded_map = aliases,
                        !.printed = generate_completions(aliases, order, cli.prompt)]
    /\ UNCHANGED <<aliasFile, agentFile, backups, clock, shellVar, probe, procs, scope>>

\* Commands::SetupCompletion (cli.rs:215-220)
CmdSetupCompletion ==
  \E args \in CommandLines, fr \in FirstRunOutcomes(Faults) :
    /\ args \in ScopeInvocations
    /\ fr \in FirstRunInputs(args, ScopeFaults)
    /\ ~is_direct_shortcut(args)
    /\ Cli_parse(args).command = "SetupCompletion"
    /\ \E io \in {"ok", "open_fail"} :
       \E first \in {AfterFirstRun(args, fr)} :
       \E r \in {setup_completion_for_current_shell(shellVar, first.rc, io)} :
         /\ Len(r.rc.blocks) <= MaxBlocks
         /\ marker' = first.marker
         /\ rcFile' = r.rc
         /\ inv' = [StartedRun("setup", args, fr) EXCEPT !.exit = IF r.ok THEN 0 ELSE 1]
    /\ UNCHANGED <<aliasFile, agentFile, backups, clock, shellVar, probe, procs, scope>>

\* Commands::Remove (cli.rs:222-234)
CmdRemove ==
  \E args \in CommandLines, fr \in FirstRunOutcomes(Faults) :
    /\ args \in ScopeInvocations
    /\ fr \in FirstRunInputs(args, ScopeFaults)
    /\ ~is_direct_shortcut(args)
    /\ \E cli \in {Cli_parse(args)} :
         /\ cli.command = "Remove"
         /\ FirstRunStep(args, fr)
         /\ \E loaded \in {load_aliases(aliasFile)} :
              IF cli.alias \in DOMAIN loaded
              THEN \E aliases \in {remove(loaded, cli.alias)} :
                   \E io \in IoOutcomes, order \in Orders(DOMAIN aliases) :
                   \E w \in {save_aliases(aliasFile, aliases, order, io)} :
                     /\ aliasFile' = w.file
                     /\ inv' = [StartedRun("remove", args, fr) EXCEPT
                                  !.loaded = TRUE, !.loaded_map = loaded,
                                  !.found = TRUE,
                                  !.save_tried = TRUE, !.saved = w.ok,
                                  !.saved_map = aliases,
                                  !.exit = IF w.ok THEN 0 ELSE 1]
              ELSE /\ UNCHANGED aliasFile
                   /\ inv' = [StartedRun("remove", args, fr) EXCEPT
                                !.loaded = TRUE, !.loaded_map = loaded]
    /\ UNCHANGED <<agentFile, backups, clock, shellVar, probe, procs, scope>>

\* Commands::Reset (cli.rs:236-264)
CmdReset ==
  \E args \in CommandLines, fr \in FirstRunOutcomes(Faults) :
    /\ args \in ScopeInvocations
    /\ fr \in FirstRunInputs(args, ScopeFaults)
    /\ ~is_direct_shortcut(args)
    /\ Cli_parse(args).command = "Reset"
    /\ \E line \in Lines :
         /\ FirstRunStep(args, fr)
         /\ IF ~confirm_reset(line)
            THEN /\ inv' = [StartedRun("reset", args, fr) EXCEPT !.answer = line]
                 /\ UNCHANGED <<aliasFile, backups, clock>>
            ELSE \E now \in clock..MaxTime, io_copy \in IoOutcomes,
                    io_remove \in {"ok", "open_fail"} :
                   LET b == create_aliases_backup(aliasFile, backups, now, io_copy)
                       removed == b.ok /\ exists(aliasFile) /\ io_remove = "ok"
                       failed == exists(aliasFile) /\ (~b.ok \/ io_remove # "ok")
                   IN  /\ clock' = now
                       /\ backups' = b.backups
                       /\ aliasFile' = IF removed THEN NoFile ELSE aliasFile
                       /\ inv' = [StartedRun("reset", args, fr) EXCEPT
                                    !.confirmed = TRUE, !.backup_made = b.made,
                                    !.io_error = failed, !.answer = line,
                                    !.exit = IF b.ok /\ (removed \/ ~exists(aliasFile))
                                             THEN 0 ELSE 1]
    /\ UNCHANGED <<agentFile, shellVar, probe, procs, scope>>

\* One invocation of the tool: run takes the branch that the arguments select.
Next ==
  \/ Shortcut
  \/ Help
  \/ Positional
  \/ ClapExit
  \/ CmdSet
  \/ CmdAgent
  \/ CmdList
  \/ CmdComplete
  \/ CmdSetupCompletion
  \/ CmdRemove

Spec == Init /\ [][Next]_vars

\* --------------------------------------------------------------- SpecReset
\* Reset among the commands that read and write the stores it touches, from
\* every kind of alias file and with an agent that is set or not.
InitReset ==
  /\ aliasFile \in {NoFile, Garbage, JsonFile(<< <<Foo, Hi>> >>)}
  /\ agentFile \in {NoFile, TextFile(<<"a", "i", NL>>)}
  /\ backups = [t \in 0..MaxTime |-> NoFile]
  /\ clock = 0
  /\ marker \in BOOLEAN
  /\ rcFile = [present |-> FALSE, blocks |-> <<>>]
  /\ shellVar = Zsh
  /\ inv = [Started("none", <<>>) EXCEPT !.first_run = FALSE]
  /\ probe = NoProbe
  /\ procs = NoProcs
  /\ scope = "reset"

NextReset ==
  \/ CmdReset
  \/ CmdSet
  \/ CmdRemove
  \/ CmdAgent
  \/ CmdList
  \/ CmdComplete
  \/ Shortcut

SpecReset == InitReset /\ [][NextReset]_vars

\* --------------------------------------------------------------- SpecParse
\* parse_agent_command applied to every text of at most MaxLen characters of
\* ParseAlphabet, and to the settings of test_parse_agent_command
\* (utils.rs:136-167).
MaxLen == 3

ParseAlphabet == {"a", SP, NL, DQ, SQ, BS, HASH}

T_claude == <<"c", "l", "a", "u", "d", "e">>
T_flag == <<"-", "-", "f", "l", "a", "g">>
T_opt == <<"-", "-", "o", "p", "t", "=", "v", "a", "l", "u", "e">>
T_quoted == <<"q", "u", "o", "t", "e", "d", SP, "c", "o", "m", "m", "a", "n", "d">>
T_arg == <<"a", "r", "g">>

ParseTests ==
  { T_claude,
    T_claude \o <<SP>> \o T_flag,
    T_claude \o <<SP>> \o T_opt \o <<SP>> \o T_flag,
    <<DQ>> \o T_quoted \o <<DQ, SP>> \o T_arg }

ParseInputs == UNION {[1..k -> ParseAlphabet] : k \in 0..MaxLen} \cup ParseTests

InitParse ==
  /\ aliasFile = NoFile
  /\ agentFile = NoFile
  /\ backups = [t \in 0..MaxTime |-> NoFile]
  /\ clock = 0
  /\ marker = FALSE
  /\ rcFile = [present |-> FALSE, blocks |-> <<>>]
  /\ shellVar = Zsh
  /\ inv = [Started("none", <<>>) EXCEPT !.first_run = FALSE]
  /\ probe \in {[fn |-> "none", input |-> s, output |-> <<>>] : s \in ParseInputs}
  /\ procs = NoProcs
  /\ scope = "parse"

ParseAgentCommand ==
  /\ probe.fn = "none"
  /\ probe' = [probe EXCEPT !.fn = "parse_agent_command",
                            !.output = parse_agent_command(probe.input)]
  /\ UNCHANGED <<aliasFile, agentFile, backups, clock, marker, rcFile, shellVar, inv, procs, scope>>

NextParse == ParseAgentCommand

SpecParse == InitParse /\ [][NextParse]_vars

\* --------------------------------------------------------------- SpecSetup
\* The first-run step and SetupCompletion for every shell and startup file,
\* with each of the two first-run writes succeeding or failing.
InitSetup ==
  /\ aliasFile = NoFile
  /\ agentFile = NoFile
  /\ backups = [t \in 0..MaxTime |-> NoFile]
  /\ clock = 0
  /\ marker = FALSE
  /\ rcFile \in RcFiles
  /\ shellVar \in Shells
  /\ inv = [Started("none", <<>>) EXCEPT !.first_run = FALSE]
  /\ probe = NoProbe
  /\ procs = NoProcs
  /\ scope = "setup"

NextSetup ==
  \/ CmdSetupCompletion
  \/ CmdComplete
  \/ CmdList
  \/ CmdReset
  \/ Help
  \/ Shortcut

SpecSetup == InitSetup /\ [][NextSetup]_vars

\* ------------------------------------------------------------ SpecComplete
\* Complete with every partial input of CompleteRunInvocations, among the
\* Set and Remove commands that change the alias names.
InitComplete ==
  /\ aliasFile \in {NoFile, Garbage}
  /\ agentFile = NoFile
  /\ backups = [t \in 0..MaxTime |-> NoFile]
  /\ clock = 0
  /\ marker \in BOOLEAN
  /\ rcFile = [present |-> FALSE, blocks |-> <<>>]
  /\ shellVar = Zsh
  /\ inv = [Started("none", <<>>) EXCEPT !.first_run = FALSE]
  /\ probe = NoProbe
  /\ procs = NoProcs
  /\ scope = "complete"

NextComplete ==
  \/ CmdComplete
  \/ CmdSet
  \/ CmdRemove
  \/ ClapExit

SpecComplete == InitComplete /\ [][NextComplete]_vars

\* ------------------------------------------------------------ SpecTruncate
\* truncate_prompt applied to every text of at most MaxText characters of
\* TruncateAlphabet with every limit up to MaxLimit, and to settings of
\* test_truncate_prompt (utils.rs:100-134).
MaxText == 4
MaxLimit == 6

TruncateAlphabet == {"a", SP, NL, EACUTE}

T_hello_world == <<"H", "e", "l", "l", "o", SP, "w", "o", "r", "l", "d">>

TruncateTests == {<<T_hello_world, 5>>, <<<<>>, 10>>}

TruncateInputs ==
  ((UNION {[1..k -> TruncateAlphabet] : k \in 0..MaxText}) \X (0..MaxLimit))
  \cup TruncateTests

InitTruncate ==
  /\ aliasFile = NoFile
  /\ agentFile = NoFile
  /\ backups = [t \in 0..MaxTime |-> NoFile]
  /\ clock = 0
  /\ marker = FALSE
  /\ rcFile = [present |-> FALSE, blocks |-> <<>>]
  /\ shellVar = Zsh
  /\ inv = [Started("none", <<>>) EXCEPT !.first_run = FALSE]
  /\ probe \in {[fn |-> "none", input |-> x, output |-> <<>>] : x \in TruncateInputs}
  /\ procs = NoProcs
  /\ scope = "truncate"

TruncatePrompt ==
  /\ probe.fn = "none"
  /\ scope = "truncate"
  /\ probe' = [probe EXCEPT !.fn = "truncate_prompt",
                            !.output = truncate_prompt(probe.input[1], probe.input[2])]
  /\ UNCHANGED <<aliasFile, agentFile, backups, clock, marker, rcFile, shellVar, inv, procs, scope>>

NextTruncate == TruncatePrompt

SpecTruncate == InitTruncate /\ [][NextTruncate]_vars

\* --------------------------------------------------------------- SpecStore
\* Set, Remove and Reset from an empty store, with a name and with the empty
\* name.
InitStore ==
  /\ aliasFile = NoFile
  /\ agentFile = NoFile
  /\ backups = [t \in 0..MaxTime |-> NoFile]
  /\ clock = 0
  /\ marker = FALSE
  /\ rcFile = [present |-> FALSE, blocks |-> <<>>]
  /\ shellVar = Zsh
  /\ inv = [Started("none", <<>>) EXCEPT !.first_run = FALSE]
  /\ probe = NoProbe
  /\ procs = NoProcs
  /\ scope = "store"

NextStore ==
  \/ CmdSet
  \/ CmdRemove
  \/ CmdReset

SpecStore == InitStore /\ [][NextStore]_vars

\* ---------------------------------------------------------------- SpecRace
\* Two invocations of Set or Remove that run at the same time, each one taking
\* its steps in the order of the code: the first-run check and load_aliases
\* with the change of the map (cli.rs:187-188, 223-225), then save_aliases up
\* to the opening of the file, which empties it, then the writing of the text
\* (config.rs:38-43).  Nothing orders the steps of one against the other's.
InitRace ==
  /\ aliasFile \in {NoFile, JsonFile(<< <<Foo, Hi>> >>)}
  /\ agentFile = NoFile
  /\ backups = [t \in 0..MaxTime |-> NoFile]
  /\ clock = 0
  /\ marker = TRUE
  /\ rcFile = [present |-> FALSE, blocks |-> <<>>]
  /\ shellVar = Zsh
  /\ inv = [Started("none", <<>>) EXCEPT !.first_run = FALSE]
  /\ probe = NoProbe
  /\ procs = NoProcs
  /\ scope = "race"

\* What process p did goes to the end of the log
Logged(p, pc, event) ==
  [run |-> [procs.run EXCEPT ![p].pc = pc], log |-> Append(procs.log, <<p, event>>)]

\* run up to the change of the loaded map: Set inserts (cli.rs:187-188),
\* Remove takes the key out and is done when it was not there
\* (cli.rs:223-225, 231-233)
RaceLoad ==
  \E p \in Procs, args \in CommandLines :
    /\ args \in ScopeInvocations
    /\ procs.run[p].pc = "start"
    /\ ~is_direct_shortcut(args)
    /\ FirstRunStep(args, <<"ok", "ok">>)
    /\ \E cli \in {Cli_parse(args)}, loaded \in {load_aliases(aliasFile)} :
         /\ cli.command \in {"Set", "Remove"}
         /\ cli.command = "Set" => cli.prompt.some
         /\ procs' =
              [run |-> [procs.run EXCEPT ![p] =
                 [pc |-> IF cli.command = "Set" \/ cli.alias \in DOMAIN loaded
                         THEN "loaded" ELSE "done",
                  args |-> args,
                  loaded |-> loaded,
                  aliases |-> IF cli.command = "Set"
                              THEN insert(loaded, cli.alias, cli.prompt.val)
                              ELSE remove(loaded, cli.alias),
                  content |-> NoFile,
                  exit |-> 0]],
               log |-> Append(procs.log, <<p, "load">>)]
    /\ UNCHANGED <<aliasFile, agentFile, backups, clock, shellVar, inv, probe, scope>>

\* save_aliases up to File::create (config.rs:39-42): the map is made a text
\* and the file is opened and emptied, or cannot be opened and the
\* invocation exits 1 (cli.rs:190-193, 226-229)
RaceOpen ==
  \E p \in Procs, io \in {"ok", "open_fail"} :
    /\ procs.run[p].pc = "loaded"
    /\ \E order \in Orders(DOMAIN procs.run[p].aliases) :
         IF io = "ok"
         THEN /\ aliasFile' = Truncated
              /\ procs' =
                   [run |-> [procs.run EXCEPT
                               ![p].pc = "opened",
                               ![p].content = to_string_pretty(procs.run[p].aliases, order)],
                    log |-> Append(procs.log, <<p, "open">>)]
         ELSE /\ UNCHANGED aliasFile
              /\ procs' =
                   [run |-> [procs.run EXCEPT ![p].pc = "done", ![p].exit = 1],
                    log |-> Append(procs.log, <<p, "fail">>)]
    /\ UNCHANGED <<agentFile, backups, clock, marker, rcFile, shellVar, inv, probe, scope>>

\* the write_all of fs::write (config.rs:42) and the end of the invocation
RaceWrite ==
  \E p \in Procs :
    /\ procs.run[p].pc = "opened"
    /\ aliasFile' \in write_at(aliasFile, procs.run[p].content)
    /\ procs' = Logged(p, "done", "write")
    /\ UNCHANGED <<agentFile, backups, clock, marker, rcFile, shellVar, inv, probe, scope>>

NextRace ==
  \/ RaceLoad
  \/ RaceOpen
  \/ RaceWrite

SpecRace == InitRace /\ [][NextRace]_vars

\* ---------------------------------------------------------------- SpecList
\* List among the Set and Remove commands that store short prompts and
\* prompts longer than its width.
InitList ==
  /\ aliasFile = NoFile
  /\ agentFile = NoFile
  /\ backups = [t \in 0..MaxTime |-> NoFile]
  /\ clock = 0
  /\ marker \in BOOLEAN
  /\ rcFile = [present |-> FALSE, blocks |-> <<>>]
  /\ shellVar = Zsh
  /\ inv = [Started("none", <<>>) EXCEPT !.first_run = FALSE]
  /\ probe = NoProbe
  /\ procs = NoProcs
  /\ scope = "list"

NextList ==
  \/ CmdList
  \/ CmdSet
  \/ CmdRemove

SpecList == InitList /\ [][NextList]_vars

\* ------------------------------------------------------------------ claims
\* The raw arguments are the arguments after the program name.
RawArgs(i) == Tail(i.args)

\* The alias file cannot be read as a map of strings.
Unparsable(file) ==
  exists(file) /\ ~from_str(read_to_string_or_default(file)).ok

\* C1: when a known shortcut is dispatched without a usage error, the
\* argument vector given to the agent is the default arguments tokenized from
\* the agent setting, then the raw tokens after the `--` separator (none when
\* the shortcut name is the only argument), then the stored prompt as one
\* last entry.
C1_ArgvIsDefaultsPerCallPrompt ==
  (inv.cmd = "shortcut" /\ inv.spawn_tried) =>
    LET tokens == shlex_split(get_agent(agentFile))
        defaultArgs == IF tokens.ok /\ tokens.parts # <<>> THEN Tail(tokens.parts) ELSE <<>>
        raw == RawArgs(inv)
        promptText == load_aliases(aliasFile)[raw[1]]
    IN  IF Len(raw) = 1
        THEN inv.argv = defaultArgs \o <<promptText>>
        ELSE \E k \in 2..Len(raw) :
               /\ raw[k] = DashDash
               /\ \A j \in 2..(k - 1) : raw[j] # DashDash
               /\ inv.argv = defaultArgs \o SubSeq(raw, k + 1, Len(raw)) \o <<promptText>>

\* A dispatch with default arguments, per-call arguments and a prompt that
\* holds a space and a newline
C1_Witness ==
  /\ inv.cmd = "shortcut" /\ inv.spawn_tried
  /\ inv.argv = <<<<"-", "f">>, Flag, Tricky>>

\* C2: a dispatch of a known shortcut whose raw arguments hold an extra token
\* after the shortcut name and no `--` token ends with exit status 1 and
\* spawns no agent.
C2_ExtraWithoutSeparatorIsUsageError ==
  ( /\ inv.cmd = "shortcut"
    /\ RawArgs(inv)[1] \in DOMAIN load_aliases(aliasFile)
    /\ Len(RawArgs(inv)) >= 2
    /\ \A i \in 1..Len(RawArgs(inv)) : RawArgs(inv)[i] # DashDash )
  => (inv.exit = 1 /\ ~inv.spawn_tried)

C2_Witness ==
  /\ inv.cmd = "shortcut"
  /\ inv.args = <<Qwk, Foo, Extra>>
  /\ Foo \in DOMAIN load_aliases(aliasFile)
  /\ inv.exit = 1

\* C3: with no arguments the tool shows help and exits 0; a first argument
\* that begins with `--` goes to the structured parser; any other first
\* argument is looked up as a shortcut name, also when it reads `set`.
C3_DispatchByFirstArgument ==
  inv.cmd # "none" =>
    LET raw == RawArgs(inv)
    IN  IF raw = <<>> THEN inv.cmd = "help" /\ inv.exit = 0
        ELSE IF Len(raw[1]) >= 2 /\ raw[1][1] = "-" /\ raw[1][2] = "-"
          THEN inv.cmd # "shortcut" /\ ~inv.spawn_tried
        ELSE /\ inv.cmd = "shortcut"
             /\ inv.loaded
             /\ inv.found = (raw[1] \in DOMAIN load_aliases(aliasFile))

\* The alias named `set` dispatched to the agent
C3_Witness ==
  /\ inv.cmd = "shortcut"
  /\ inv.args = <<Qwk, SetName>>
  /\ inv.found /\ inv.spawn_tried

\* C4: dispatching a first argument that is not a key of the alias map ends
\* with exit status 1 and spawns no agent, whatever the remaining arguments.
C4_UnknownShortcutExitsOne ==
  (inv.cmd = "shortcut" /\ RawArgs(inv)[1] \notin DOMAIN load_aliases(aliasFile))
  => (inv.exit = 1 /\ ~inv.spawn_tried)

\* An unknown name followed by a well-formed `-- <agent-args>` tail, while
\* other aliases exist
C4_Witness ==
  /\ inv.cmd = "shortcut"
  /\ inv.args = <<Qwk, Bar, DashDash, Flag>>
  /\ DOMAIN load_aliases(aliasFile) # {}
  /\ inv.exit = 1

\* C5: once the agent was spawned and has completed, the exit code is the
\* child's (0 when the child has none); when the agent cannot be spawned the
\* exit code is 1.
C5_ExitCodeIsChilds ==
  (inv.cmd = "shortcut" /\ inv.spawn_tried) =>
    /\ (inv.child.spawn = "ok" /\ inv.child.code.some) => inv.exit = inv.child.code.val
    /\ (inv.child.spawn = "ok" /\ ~inv.child.code.some) => inv.exit = 0
    /\ inv.child.spawn = "fail" => inv.exit = 1

\* A child that ended with a code other than 0 and 1
C5_Witness ==
  /\ inv.cmd = "shortcut" /\ inv.spawn_tried
  /\ inv.child.spawn = "ok" /\ inv.child.code.some
  /\ inv.child.code.val = MaxCode
  /\ inv.exit = MaxCode

\* C6: parse_agent_command tokenizes the agent setting with shell-like
\* quoting and returns the first token as the program and the other tokens,
\* in order, as the default arguments; when the tokenizer fails (a quote left
\* open) or yields no token (an empty or blank setting) it returns the raw
\* setting as the program, with no default arguments.
C6_ParseAgentCommand ==
  probe.fn = "parse_agent_command" =>
    LET s == probe.input
        program == probe.output[1]
        args == probe.output[2]
        tokens == shlex_split(s)
        fallback == program = s /\ args = <<>>
        quotes == {i \in 1..Len(s) : s[i] \in {DQ, SQ}}
        special == {i \in 1..Len(s) : s[i] \in {DQ, SQ, BS, HASH}}
    IN  /\ (tokens.ok /\ tokens.parts # <<>>) => <<program>> \o args = tokens.parts
        /\ (~tokens.ok \/ tokens.parts = <<>>) => fallback
        /\ (\A i \in 1..Len(s) : IsWhitespace(s[i])) => fallback
        /\ (Cardinality(quotes) = 1 /\ special = quotes) => fallback
        /\ (special = {} /\ split_whitespace(s) # <<>>)
             => <<program>> \o args = split_whitespace(s)
        /\ s = T_claude => (program = T_claude /\ args = <<>>)
        /\ s = T_claude \o <<SP>> \o T_flag => (program = T_claude /\ args = <<T_flag>>)
        /\ s = T_claude \o <<SP>> \o T_opt \o <<SP>> \o T_flag
             => (program = T_claude /\ args = <<T_opt, T_flag>>)
        /\ s = <<DQ>> \o T_quoted \o <<DQ, SP>> \o T_arg
             => (program = T_quoted /\ args = <<T_arg>>)

\* A quoted program that holds a space, followed by one default argument
C6_Witness ==
  /\ probe.fn = "parse_agent_command"
  /\ probe.input = <<DQ>> \o T_quoted \o <<DQ, SP>> \o T_arg
  /\ probe.output = <<T_quoted, <<T_arg>>>>

\* C7: loading after a save returns the saved map, with the same keys and
\* the same value for each key, in whatever order the members were written.
C7_LoadAfterSaveIsIdentity ==
  inv.saved => load_aliases(aliasFile) = inv.saved_map

\* A saved map of two aliases, one with a prompt that holds a quote, a
\* backslash and a newline
C7_Witness ==
  /\ inv.saved
  /\ DOMAIN inv.saved_map = Names
  /\ \E k \in Names : inv.saved_map[k] = Tricky
  /\ load_aliases(aliasFile) = inv.saved_map

\* C8: load_aliases returns the empty map when the alias file is absent,
\* unreadable or unparsable, and the invocations that only load (List,
\* Complete, a shortcut dispatch) leave the file as it was.
C8_LoadNeverFailsNorWrites ==
  [][ /\ (inv'.loaded /\ (~exists(aliasFile) \/ Unparsable(aliasFile)))
         => inv'.loaded_map = EmptyMap
      /\ inv'.cmd \in {"list", "complete", "shortcut"}
         => (inv'.loaded /\ aliasFile' = aliasFile) ]_vars

\* List has run on a corrupt alias file, which is still there
C8_Witness ==
  /\ inv.cmd = "list" /\ inv.loaded
  /\ inv.loaded_map = EmptyMap
  /\ aliasFile = Garbage

\* C9: after a successful Set on a parsable alias file the persisted map
\* maps the alias to the prompt, every other key keeps its value, and a
\* dispatch of an alias passes the persisted prompt as the last argument.
C9_SetUpserts ==
  [][ /\ (inv'.cmd = "set" /\ inv'.exit = 0 /\ ~Unparsable(aliasFile)) =>
           LET alias == inv'.args[3]
               prompt == IF Len(inv'.args) >= 4 THEN inv'.args[4] ELSE inv'.prompt
               old == load_aliases(aliasFile)
               new == load_aliases(aliasFile')
           IN  /\ DOMAIN new = DOMAIN old \cup {alias}
               /\ new[alias] = prompt
               /\ \A k \in DOMAIN old \ {alias} : new[k] = old[k]
      /\ (inv'.cmd = "shortcut" /\ inv'.spawn_tried) =>
           inv'.argv[Len(inv'.argv)] = load_aliases(aliasFile)[inv'.args[2]] ]_vars

\* A Set that replaced the prompt of one of two aliases
C9_Witness ==
  /\ inv.cmd = "set" /\ inv.exit = 0
  /\ DOMAIN inv.loaded_map = Names
  /\ inv.loaded_map[inv.args[3]] # inv.prompt
  /\ load_aliases(aliasFile)[inv.args[3]] = inv.prompt

\* C10, as stated: Remove exits 0 whether the alias is present or absent;
\* present, the persisted map afterwards is the previous map without the key;
\* absent, the file is not written and the map is unchanged.
C10_RemoveAlwaysExitsZero ==
  [][ inv'.cmd = "remove" =>
        LET alias == inv'.args[3]
            old == load_aliases(aliasFile)
            new == load_aliases(aliasFile')
        IN  /\ inv'.exit = 0
            /\ alias \in DOMAIN old => new = [k \in DOMAIN old \ {alias} |-> old[k]]
            /\ alias \notin DOMAIN old => (aliasFile' = aliasFile /\ new = old) ]_vars

\* C10, amended: Remove exits 0 when the alias is absent, the file not
\* written; when the alias is present and the save succeeds it exits 0 and
\* the persisted map is the previous map without the key; when the alias is
\* present and the save fails it exits 1.
C10_RemoveExitsZeroUnlessSaveFails ==
  [][ inv'.cmd = "remove" =>
        LET alias == inv'.args[3]
            old == load_aliases(aliasFile)
            new == load_aliases(aliasFile')
        IN  /\ alias \notin DOMAIN old =>
                 (inv'.exit = 0 /\ ~inv'.save_tried /\ aliasFile' = aliasFile)
            /\ (alias \in DOMAIN old /\ inv'.saved) =>
                 (inv'.exit = 0 /\ new = [k \in DOMAIN old \ {alias} |-> old[k]])
            /\ (alias \in DOMAIN old /\ ~inv'.saved) => inv'.exit = 1 ]_vars

\* One of two aliases removed and the other kept
C10_Witness ==
  /\ inv.cmd = "remove" /\ inv.found /\ inv.saved /\ inv.exit = 0
  /\ DOMAIN inv.loaded_map = Names
  /\ DOMAIN load_aliases(aliasFile) = Names \ {inv.args[3]}

\* C11: a confirmed Reset that meets no I/O error exits 0 and leaves no alias
\* file, so that a load gives the empty map and no name is found; it makes a
\* backup exactly when an alias file existed, the backup holds what the alias
\* file held just before, and without an alias file no backup is touched.
\* While there is no alias file every load gives the empty map and every
\* shortcut dispatch reports not found with exit code 1.
C11_ConfirmedResetClearsAliases ==
  [][ /\ (inv'.cmd = "reset" /\ inv'.confirmed /\ ~inv'.io_error) =>
           /\ inv'.exit = 0
           /\ ~exists(aliasFile')
           /\ load_aliases(aliasFile') = EmptyMap
           /\ \A n \in Names \cup {Bar}, child \in Children :
                LET r == execute_shortcut(n, <<Qwk, n>>, load_aliases(aliasFile'),
                                          get_agent(agentFile'), child)
                IN  ~r.found /\ ~r.spawn_tried /\ r.exit = 1
           /\ inv'.backup_made <=> exists(aliasFile)
           /\ exists(aliasFile) => backups'[clock'] = aliasFile
           /\ ~exists(aliasFile) => backups' = backups
      /\ (~exists(aliasFile) /\ inv'.loaded) => inv'.loaded_map = EmptyMap
      /\ (~exists(aliasFile) /\ inv'.cmd = "shortcut") =>
           ~inv'.found /\ ~inv'.spawn_tried /\ inv'.exit = 1
    ]_vars

\* A confirmed Reset has backed up an alias file that held an alias and has
\* removed it.
C11_Witness ==
  /\ inv.cmd = "reset" /\ inv.confirmed /\ ~inv.io_error
  /\ inv.exit = 0 /\ inv.backup_made
  /\ ~exists(aliasFile)
  /\ Foo \in DOMAIN load_aliases(backups[clock])

\* The answers that are y or yes in any case
Affirmative ==
  {<<y>> : y \in {"y", "Y"}}
  \cup {<<y, e, s>> : y \in {"y", "Y"}, e \in {"e", "E"}, s \in {"s", "S"}}

\* C12: Reset goes on exactly when the answer was read and, without the
\* whitespace around it, is y or yes in any case; otherwise (another answer,
\* or the read failed) it exits 0 and the alias file, the agent file and the
\* backups are as they were.
C12_ResetNeedsConfirmation ==
  [][ inv'.cmd = "reset" =>
        /\ inv'.confirmed <=>
             (inv'.answer.ok /\ trim(inv'.answer.text) \in Affirmative)
        /\ ~inv'.confirmed =>
             /\ inv'.exit = 0
             /\ aliasFile' = aliasFile
             /\ agentFile' = agentFile
             /\ backups' = backups
    ]_vars

\* A Reset was cancelled by an answer that begins with y, with an alias file in
\* place.
C12_Witness ==
  /\ inv.cmd = "reset" /\ ~inv.confirmed /\ inv.exit = 0
  /\ inv.answer.ok /\ starts_with(inv.answer.text, <<"y">>)
  /\ Foo \in DOMAIN load_aliases(aliasFile)

\* C13: a step of Set, Remove, Reset (confirmed or cancelled), List, Complete
\* or a shortcut dispatch leaves the agent file and so the resolved agent
\* setting as it was, and a step of Agent leaves the alias file and so the
\* alias map as it was.
C13_OnlyAgentChangesAgent ==
  [][ /\ inv'.cmd \in {"set", "remove", "reset", "list", "complete", "shortcut"} =>
           /\ agentFile' = agentFile
           /\ get_agent(agentFile') = get_agent(agentFile)
      /\ inv'.cmd = "agent" =>
           /\ aliasFile' = aliasFile
           /\ load_aliases(aliasFile') = load_aliases(aliasFile)
    ]_vars

\* A confirmed Reset has removed the alias file while an agent set by the
\* Agent command is in place.
C13_Witness ==
  /\ inv.cmd = "reset" /\ inv.confirmed /\ inv.backup_made
  /\ ~exists(aliasFile)
  /\ get_agent(agentFile) = <<"a", "i", SP, "-", "f">>

\* str::trim_end: the text without the whitespace at its end
trim_end(s) ==
  LET keep == {i \in 1..Len(s) : ~IsWhitespace(s[i])}
  IN  IF keep = {} THEN <<>>
      ELSE SubSeq(s, 1, CHOOSE i \in keep : \A j \in keep : i >= j)

\* C14 as stated: without an agent file the resolved agent is claude, and
\* after an Agent command that succeeded it is the given string without its
\* trailing whitespace and otherwise verbatim.
C14_AgentIsTrailingTrimmed ==
  [][ /\ ~exists(agentFile') => get_agent(agentFile') = Claude
      /\ (inv'.cmd = "agent" /\ inv'.exit = 0) =>
           get_agent(agentFile') = trim_end(inv'.args[3])
    ]_vars

\* C14, amended: without an agent file the resolved agent is claude, and
\* after an Agent command that succeeded it is the given string without the
\* whitespace at its start and at its end, whatever was stored before.
C14_AgentIsTrimmed ==
  [][ /\ ~exists(agentFile') => get_agent(agentFile') = Claude
      /\ (inv'.cmd = "agent" /\ inv'.exit = 0) =>
           /\ agentFile' = TextFile(inv'.args[3])
           /\ get_agent(agentFile') = trim(inv'.args[3])
    ]_vars

\* An Agent command has stored a string that begins and ends with
\* whitespace; the resolved agent begins with its first other character.
C14_Witness ==
  /\ inv.cmd = "agent" /\ inv.exit = 0
  /\ IsWhitespace(inv.args[3][1])
  /\ get_agent(agentFile) = <<DQ, "a", SP, "i", DQ, SP, "x">>

\* s ends with the three dots
ends_with_ellipsis(s) == Len(s) >= 3 /\ SubSeq(s, Len(s) - 2, Len(s)) = Ellipsis

\* C15 as stated: what truncate_prompt returns is never longer than the limit
\* in characters; a collapsed text of at most that many characters is
\* returned as it is, a longer one gives a result that ends with the three
\* dots and has exactly the limit's length.
C15_TruncateFitsLimit ==
  (probe.fn = "truncate_prompt" /\ probe.output.ok) =>
    LET cleaned == cleaned_of(probe.input[1])
        n == probe.input[2]
        out == probe.output.text
    IN  /\ Len(out) <= n
        /\ Len(cleaned) <= n => out = cleaned
        /\ Len(cleaned) > n => ends_with_ellipsis(out) /\ Len(out) = n

\* C15, what truncate_prompt does return, with lengths in bytes: a collapsed text
\* of at most the limit is returned as it is; a longer one gives a result
\* that ends with the three dots, whose length is the limit when the limit
\* is 3 or more, and 3 otherwise.
C15_TruncateFitsLimitInBytes ==
  (probe.fn = "truncate_prompt" /\ probe.output.ok) =>
    LET cleaned == cleaned_of(probe.input[1])
        n == probe.input[2]
        out == probe.output.text
    IN  /\ byte_len(cleaned) <= n => out = cleaned
        /\ byte_len(cleaned) > n =>
             /\ ends_with_ellipsis(out)
             /\ byte_len(out) = IF n >= 3 THEN n ELSE 3
             /\ SubSeq(out, 1, Len(out) - 3) = SubSeq(cleaned, 1, Len(out) - 3)

\* The last case of test_truncate_prompt: a text cut to He...
C15_Witness ==
  /\ probe.fn = "truncate_prompt" /\ probe.output.ok
  /\ probe.input = <<T_hello_world, 5>>
  /\ probe.output.text = <<"H", "e", ".", ".", ".">>

\* The reserved long flags and the partial input of the last invocation
Reserved == {commands[i] : i \in 1..Len(commands)}

partial_of(args) == Cli_parse(args).prompt

\* The alias names and reserved flags that have the partial input as a
\* prefix; all of them when it is absent or empty
Matching(aliases, partial) ==
  {c \in DOMAIN aliases \cup Reserved :
     (partial.some /\ partial.val # <<>>) => starts_with(c, partial.val)}

Lines_of(out) == {out[i] : i \in 1..Len(out)}

is_sorted(out) == \A i, j \in 1..Len(out) : i < j => str_le(out[i], out[j])

times_printed(out, c) == Cardinality({i \in 1..Len(out) : out[i] = c})

\* C16 as stated: Complete prints, sorted, exactly the alias names and
\* reserved flags that have the partial input as a prefix, all of them when
\* it is absent or empty, each one once.
C16_CompletePrintsEachOnce ==
  inv.cmd = "complete" =>
    LET matching == Matching(load_aliases(aliasFile), partial_of(inv.args))
    IN  /\ is_sorted(inv.printed)
        /\ Lines_of(inv.printed) = matching
        /\ \A c \in matching : times_printed(inv.printed, c) = 1

\* C16, what Complete does print: sorted, the alias names and reserved flags that
\* have the partial input as a prefix and nothing else; a name is printed
\* once, and twice when it is an alias and a reserved flag at once.
C16_CompletePrintsMatching ==
  inv.cmd = "complete" =>
    LET aliases == load_aliases(aliasFile)
        matching == Matching(aliases, partial_of(inv.args))
    IN  /\ is_sorted(inv.printed)
        /\ Lines_of(inv.printed) = matching
        /\ \A c \in matching :
             times_printed(inv.printed, c) =
               IF c \in DOMAIN aliases /\ c \in Reserved THEN 2 ELSE 1

\* Complete with the partial input s printed the one alias that begins
\* with it, of two.
C16_Witness ==
  /\ inv.cmd = "complete"
  /\ DOMAIN load_aliases(aliasFile) = {Foo, SetName}
  /\ partial_of(inv.args).some
  /\ partial_of(inv.args).val = <<"s">>
  /\ inv.printed = <<SetName>>

\* The partial input --s
P_dash_s == <<"-", "-", "s">>

\* C17 as stated: with the aliases foo and --set and the partial input --s,
\* Complete prints the one line --set.
C17_OnlySetForDashS ==
  ( /\ inv.cmd = "complete"
    /\ DOMAIN load_aliases(aliasFile) = {Foo, F_set}
    /\ partial_of(inv.args).some
    /\ partial_of(inv.args).val = P_dash_s )
  => inv.printed = <<F_set>>

\* C17, amended: with the aliases foo and --set and the partial input --s,
\* the lines that Complete prints are --set and --setup-completion and no
\* other, --set first.
C17_SetAndSetupCompletionForDashS ==
  ( /\ inv.cmd = "complete"
    /\ DOMAIN load_aliases(aliasFile) = {Foo, F_set}
    /\ partial_of(inv.args).some
    /\ partial_of(inv.args).val = P_dash_s )
  => /\ Lines_of(inv.printed) = {F_set, F_setup_completion}
     /\ is_sorted(inv.printed)
     /\ inv.printed[1] = F_set
     /\ inv.printed[Len(inv.printed)] = F_setup_completion

\* Complete ran with the aliases foo and --set and the partial input --s and
\* printed --setup-completion among its lines.
C17_Witness ==
  /\ inv.cmd = "complete"
  /\ DOMAIN load_aliases(aliasFile) = {Foo, F_set}
  /\ partial_of(inv.args).some
  /\ partial_of(inv.args).val = P_dash_s
  /\ F_setup_completion \in Lines_of(inv.printed)

\* With the marker in place the first-run procedure does nothing, whatever
\* its writes would meet.
FirstRunIsOver ==
  \A fr \in FirstRunOutcomes(Faults) :
    LET r == handle_first_run(shellVar, marker, rcFile, fr)
    IN  r.marker = marker /\ r.rc = rcFile

\* C18 as stated: after an invocation that runs the first-run procedure the
\* marker exists, whatever became of the shell detection and the
\* installation; with the marker in place an invocation leaves the marker
\* there, and the first-run procedure installs nothing (the startup file
\* changes in a SetupCompletion command only).
C18_MarkerAfterFirstRun ==
  [][ /\ inv'.first_run => marker'
      /\ marker =>
           /\ marker'
           /\ FirstRunIsOver
           /\ inv'.cmd # "setup" => rcFile' = rcFile
    ]_vars

\* C18, amended: the same, for the invocations whose write of the marker
\* succeeds; when that write fails the marker stays absent.
C18_MarkerAfterFirstRunUnlessWriteFails ==
  [][ /\ (inv'.first_run /\ ~inv'.mark_failed) => marker'
      /\ inv'.mark_failed => (~marker /\ ~marker')
      /\ marker =>
           /\ marker'
           /\ FirstRunIsOver
           /\ inv'.cmd # "setup" => rcFile' = rcFile
    ]_vars

\* The marker was written by a first run that found no shell to set up.
C18_Witness ==
  /\ marker /\ inv.first_run /\ ~inv.mark_failed
  /\ detect_shell(shellVar) = "none"
  /\ inv.cmd = "list"

\* C19: an invocation whose first raw argument holds the word complete does
\* not run the first-run procedure: the marker and the startup file are as
\* they were, also when the marker is absent.
C19_CompleteSkipsFirstRun ==
  [][ (Len(inv'.args) >= 2 /\ contains(inv'.args[2], S_complete)) =>
        /\ ~inv'.first_run
        /\ marker' = marker
        /\ rcFile' = rcFile
    ]_vars

\* --complete ran with a partial input while the marker was absent and no
\* startup file existed, and both are still absent.
C19_Witness ==
  /\ inv.cmd = "complete" /\ inv.args = <<Qwk, F_complete, <<"f">>>>
  /\ ~marker
  /\ ~rcFile.present
  /\ detect_shell(shellVar) = "Zsh"

\* How many times the startup file holds the completion snippet
snippets(rc) == Cardinality({i \in 1..Len(rc.blocks) : rc.blocks[i] = "snippet"})

\* C20 as stated: after any sequence of SetupCompletion commands and first-run
\* procedures the startup file holds the snippet at most once.
C20_SnippetAtMostOnce == snippets(rcFile) <= 1

\* C20, what holds: a startup file that can be read as text holds the snippet at
\* most once, and a setup that finds the snippet in it appends nothing.
C20_SnippetAtMostOnceInText ==
  /\ is_utf8(rcFile) => snippets(rcFile) <= 1
  /\ is_completion_installed(rcFile) =>
       \A io \in {"ok", "open_fail"} :
         setup_completion_for_current_shell(shellVar, rcFile, io).rc = rcFile

\* SetupCompletion has run for bash after the first run, with the snippet
\* in the startup file, and succeeded leaving the one snippet there.
C20_Witness ==
  /\ inv.cmd = "setup" /\ inv.exit = 0
  /\ marker
  /\ rcFile.present
  /\ rcFile.blocks = <<"user", "snippet">>
  /\ detect_shell(shellVar) = "Bash"

\* C21 as stated: after any sequence of Set, Remove and Reset commands from
\* an empty store, every key of the persisted alias map is a non-empty
\* string.
C21_KeysAreNonEmpty ==
  \A k \in DOMAIN load_aliases(aliasFile) : k # NoName

\* C21, what holds: the keys of the persisted map after a command are among
\* the keys before it and the name given to a Set command, whatever that
\* name is; so the empty key is there only after a Set of the empty name.
C21_KeysAreGivenNames ==
  [][ DOMAIN load_aliases(aliasFile') \subseteq
        DOMAIN load_aliases(aliasFile)
        \cup (IF inv'.cmd = "set" THEN {Cli_parse(inv'.args).alias} ELSE {})
    ]_vars

\* A Set of the empty name has succeeded and the persisted map has the empty
\* key, next to the key foo.
C21_Witness ==
  /\ inv.cmd = "set" /\ inv.exit = 0
  /\ Cli_parse(inv.args).alias = NoName
  /\ DOMAIN load_aliases(aliasFile) = {NoName, Foo}

\* The timestamps that name a backup file
BackupTimes(b) == {t \in 0..MaxTime : exists(b[t])}

\* C22 as stated: a backup file, once created, is never changed or replaced
\* by a later operation, and every confirmed Reset that copied an existing
\* alias file adds one backup file, under a name of its own; no other
\* operation adds or removes one.
C22_BackupsAreImmutable ==
  [][ /\ \A t \in BackupTimes(backups) : backups'[t] = backups[t]
      /\ Cardinality(BackupTimes(backups')) =
           Cardinality(BackupTimes(backups))
           + (IF inv'.cmd = "reset" /\ inv'.backup_made THEN 1 ELSE 0)
    ]_vars

\* C22, what holds: the backup files change only in a confirmed Reset that
\* found an alias file, and only the file named by the second it runs in; a
\* Reset whose copy succeeds writes the alias file's content under that name,
\* so it adds a file exactly when no backup of that second exists and
\* otherwise replaces that backup (as does a copy that fails half way).
C22_BackupsChangeOnlyInReset ==
  [][ /\ backups' # backups =>
           /\ inv'.cmd = "reset" /\ inv'.confirmed /\ exists(aliasFile)
           /\ inv'.backup_made \/ inv'.exit = 1
      /\ \A t \in 0..MaxTime : t # clock' => backups'[t] = backups[t]
      /\ (inv'.cmd = "reset" /\ inv'.backup_made) =>
           /\ inv'.confirmed /\ exists(aliasFile)
           /\ backups'[clock'] = aliasFile
           /\ BackupTimes(backups') = BackupTimes(backups) \cup {clock'}
    ]_vars

\* A second confirmed Reset, in a later second than the first, has written a
\* backup of its own next to the first one, which holds other content.
C22_Witness ==
  /\ inv.cmd = "reset" /\ inv.confirmed /\ inv.backup_made
  /\ clock = 1
  /\ BackupTimes(backups) = {0, 1}
  /\ backups[0] # backups[1]

\* C23: in a confirmed Reset the alias file is deleted only after its backup
\* was made, so the backup of that second holds what the alias file held; and
\* when the alias file exists and the backup cannot be made the Reset exits 1
\* without deleting, the alias file being present with its content unchanged.
C23_BackupPrecedesDelete ==
  [][ (inv'.cmd = "reset" /\ inv'.confirmed /\ exists(aliasFile)) =>
        /\ ~exists(aliasFile') =>
             inv'.backup_made /\ backups'[clock'] = aliasFile
        /\ ~inv'.backup_made =>
             /\ inv'.exit = 1
             /\ inv'.io_error
             /\ exists(aliasFile')
             /\ aliasFile' = aliasFile
    ]_vars

\* A confirmed Reset whose backup failed has exited 1 and the alias foo is
\* still stored.
C23_Witness ==
  /\ inv.cmd = "reset" /\ inv.confirmed /\ ~inv.backup_made
  /\ inv.exit = 1
  /\ DOMAIN load_aliases(aliasFile) = {Foo}

\* The place in the log of what process p did, 0 when it did not
Pos(p, event) ==
  LET hits == {i \in 1..Len(procs.log) : procs.log[i][1] = p /\ procs.log[i][2] = event}
  IN  IF hits = {} THEN 0 ELSE CHOOSE i \in hits : TRUE

\* Both invocations have loaded the alias file before either began to save,
\* and both have written.
RacedToWrite ==
  /\ \A p \in Procs : Pos(p, "write") > 0
  /\ \A p, q \in Procs : Pos(p, "load") < Pos(q, "open")

\* The invocation that wrote last, and the other one
LastWriter == CHOOSE p \in Procs : \A q \in Procs : Pos(q, "write") <= Pos(p, "write")

FirstWriter == CHOOSE p \in Procs : p # LastWriter

\* The last writer opened the file before the other had written: the two
\* saves overlap.
SavesOverlap == Pos(LastWriter, "open") < Pos(FirstWriter, "write")

\* The change that the first writer made to the map it loaded (an alias set
\* to a new prompt, or an alias removed) is not in map m; a change to the
\* alias that the last writer changed itself is not looked at.
FirstWritersChangeAbsent(m) ==
  LET mine == Cli_parse(procs.run[FirstWriter].args)
      theirs == Cli_parse(procs.run[LastWriter].args)
      before == procs.run[FirstWriter].loaded
      after == procs.run[FirstWriter].aliases
  IN  (mine.alias # theirs.alias /\ after # before) =>
        IF mine.command = "Set"
        THEN ~(mine.alias \in DOMAIN m /\ m[mine.alias] = mine.prompt.val)
        ELSE mine.alias \in DOMAIN m

\* C24 as stated: when two Set or Remove invocations both load the alias file
\* before either saves, the persisted map in the end is exactly the map
\* saved by the invocation that writes last, and the change made by the
\* other is absent from it.
C24_LastWriteWins ==
  RacedToWrite =>
    /\ load_aliases(aliasFile) = procs.run[LastWriter].aliases
    /\ FirstWritersChangeAbsent(load_aliases(aliasFile))

\* C24, what holds: when two Set or Remove invocations both load the alias file
\* before either saves, and the two saves do not overlap or the text written
\* last is not the shorter one, the file in the end is the text of the
\* invocation that writes last, the persisted map is the map it saved, and
\* the change made by the other is absent from it; when the saves overlap and
\* the text written last is the shorter one, the file is unparsable and the
\* persisted map is empty.
C24_LastWriteWinsUnlessSavesOverlap ==
  RacedToWrite =>
    LET last == procs.run[LastWriter]
        first == procs.run[FirstWriter]
        torn == SavesOverlap /\ file_len(last.content) < file_len(first.content)
    IN  /\ ~torn =>
             /\ aliasFile = last.content
             /\ load_aliases(aliasFile) = last.aliases
             /\ FirstWritersChangeAbsent(load_aliases(aliasFile))
        /\ torn =>
             /\ Unparsable(aliasFile)
             /\ load_aliases(aliasFile) = EmptyMap

\* Two Sets of different names have both loaded the empty store and then
\* saved one after the other: only the name of the one that wrote last is
\* stored.
C24_Witness ==
  /\ RacedToWrite
  /\ ~SavesOverlap
  /\ Cli_parse(procs.run[FirstWriter].args).alias = Foo
  /\ Cli_parse(procs.run[LastWriter].args).alias = SetName
  /\ DOMAIN load_aliases(aliasFile) = {SetName}

\* C25: an invocation whose first argument does not begin with "--" takes
\* the shortcut path and no subcommand handler; it ends in one of four ways
\* (not found, usage error, spawn failure, child completed), makes no save
\* and no backup, and the alias file, the agent file and the backup files
\* are as they were.  So no invocation both dispatches to the agent and
\* changes a store.
C25_ShortcutPathLeavesStores ==
  [][ /\ (Len(inv'.args) >= 2 /\ ~starts_with(inv'.args[2], DashDash)) =>
           inv'.cmd = "shortcut"
      /\ inv'.cmd = "shortcut" =>
           /\ aliasFile' = aliasFile
           /\ agentFile' = agentFile
           /\ backups' = backups
           /\ ~inv'.save_tried /\ ~inv'.confirmed /\ ~inv'.backup_made
           /\ \/ ~inv'.found /\ ~inv'.spawn_tried /\ inv'.exit = 1
              \/ inv'.found /\ ~inv'.spawn_tried /\ inv'.exit = 1
              \/ /\ inv'.found /\ inv'.spawn_tried
                 /\ inv'.child.spawn = "fail" /\ inv'.exit = 1
              \/ /\ inv'.found /\ inv'.spawn_tried
                 /\ inv'.child.spawn = "ok"
                 /\ inv'.exit = (IF inv'.child.code.some THEN inv'.child.code.val ELSE 0)
      /\ (aliasFile' # aliasFile \/ agentFile' # agentFile \/ backups' # backups) =>
           ~inv'.spawn_tried
    ]_vars

\* The alias foo was dispatched with per-call arguments to an agent set by
\* the Agent command, and the child ran to its end: both stores are in place.
C25_Witness ==
  /\ inv.cmd = "shortcut" /\ inv.spawn_tried
  /\ inv.child.spawn = "ok" /\ inv.exit = 2
  /\ inv.args = <<Qwk, Foo, DashDash, Flag>>
  /\ Foo \in DOMAIN load_aliases(aliasFile)
  /\ exists(agentFile)

\* The tokens of seq after its first "--"; seq holds one
AfterFirstSeparator(seq) ==
  LET i == CHOOSE k \in 1..Len(seq) :
             seq[k] = DashDash /\ \A j \in 1..(k - 1) : seq[j] # DashDash
  IN  SubSeq(seq, i + 1, Len(seq))

\* C26: when the raw arguments after a known shortcut name hold a "--", there
\* is no usage error and the agent is given the default arguments, then
\* exactly the tokens after the first "--" (the tokens before it are
\* dropped, a later "--" is passed on as it is, none when the first "--" is
\* the last token), then the prompt.
C26_PerCallArgsFollowFirstSeparator ==
  LET given == Tail(RawArgs(inv))
  IN  ( /\ inv.cmd = "shortcut" /\ inv.found
        /\ \E k \in 1..Len(given) : given[k] = DashDash ) =>
        /\ inv.spawn_tried
        /\ inv.argv =
             parse_agent_command(get_agent(agentFile))[2]
             \o AfterFirstSeparator(given)
             \o <<load_aliases(aliasFile)[inv.args[2]]>>
        /\ given[Len(given)] = DashDash /\ Len(given) = 1 =>
             inv.argv = parse_agent_command(get_agent(agentFile))[2]
                        \o <<load_aliases(aliasFile)[inv.args[2]]>>

\* foo was dispatched as `qwk foo -- -v -- x`: the agent was given -v, the
\* second "--" and x before the prompt.
C26_Witness ==
  /\ inv.cmd = "shortcut" /\ inv.found /\ inv.spawn_tried
  /\ Tail(RawArgs(inv)) = <<DashDash, Flag, DashDash, Extra>>
  /\ \E n \in 1..Len(inv.argv) :
       SubSeq(inv.argv, n, Len(inv.argv) - 1) = <<Flag, DashDash, Extra>>

\* The map that holds the one alias of a Set and its prompt
OnlyAlias(i) == insert(EmptyMap, Cli_parse(i.args).alias, i.prompt)

\* C27 as stated: with an alias file that is present and unparsable, a Set
\* that has its prompt exits 0 and the persisted map afterwards holds exactly
\* that alias; Remove of any alias and List leave the file as it was.
C27_SetReplacesUnparsableFile ==
  [][ Unparsable(aliasFile) =>
        /\ (inv'.cmd = "set" /\ inv'.save_tried) =>
             /\ inv'.exit = 0
             /\ load_aliases(aliasFile') = OnlyAlias(inv')
        /\ inv'.cmd \in {"remove", "list"} => aliasFile' = aliasFile
    ]_vars

\* C27, amended: with an alias file that is present and unparsable, a Set
\* that has its prompt saves the map of exactly that alias; when the save
\* succeeds it exits 0 and the persisted map holds exactly that alias, when
\* the save fails it exits 1 and the file still gives no alias.  Remove of
\* any alias and List exit 0, try no save and leave the file as it was.
C27_SetReplacesUnparsableFileIfSaved ==
  [][ Unparsable(aliasFile) =>
        /\ (inv'.cmd = "set" /\ inv'.save_tried) =>
             /\ inv'.loaded_map = EmptyMap
             /\ inv'.saved_map = OnlyAlias(inv')
             /\ inv'.saved =>
                  /\ inv'.exit = 0
                  /\ ~Unparsable(aliasFile')
                  /\ load_aliases(aliasFile') = OnlyAlias(inv')
             /\ ~inv'.saved =>
                  /\ inv'.exit = 1
                  /\ Unparsable(aliasFile')
                  /\ load_aliases(aliasFile') = EmptyMap
        /\ inv'.cmd \in {"remove", "list"} =>
             /\ inv'.exit = 0
             /\ ~inv'.save_tried
             /\ inv'.loaded_map = EmptyMap
             /\ aliasFile' = aliasFile
    ]_vars

\* A Set on an alias file that cannot be read has failed to save: it exited
\* 1 and the file is as unreadable as before.
C27_Witness ==
  /\ inv.cmd = "set" /\ inv.save_tried /\ ~inv.saved
  /\ inv.exit = 1
  /\ aliasFile.kind = "unreadable"


\* ------------------------------------------------------------------------ C28
\* The stored prompts for which the slice of truncate_prompt at the width of
\* List aborts: the cleaned prompt takes more bytes than the width and no
\* character ends at the byte of the cut.
CutInsideCharacter(prompt) ==
  LET cleaned == cleaned_of(prompt)
  IN  /\ byte_len(cleaned) > ListWidth
      /\ \A k \in 0..Len(cleaned) : byte_len(SubSeq(cleaned, 1, k)) # ListWidth - 3

\* C28: truncate_prompt returns a string for every stored prompt at the
\* width of List and never aborts, also when the cleaned prompt is longer
\* than the width and has multi-byte characters around the cut; hence a List
\* ends with exit code 0 and has printed a line for every stored alias.
C28_ListPrintsEveryAlias ==
  inv.cmd = "list" =>
    /\ \A k \in DOMAIN inv.loaded_map : truncate_prompt(inv.loaded_map[k], ListWidth).ok
    /\ inv.exit = 0
    /\ Len(inv.printed) = Cardinality(DOMAIN inv.loaded_map)

\* C28, what holds: List ends with exit code 0 and a line for every stored
\* alias exactly when no stored prompt is cut inside a character; otherwise
\* it aborts with exit code 101 having printed fewer lines than there are
\* aliases. Every line it prints is a stored name with a text of at most the
\* width in bytes.
C28_ListAbortsOnACutInsideACharacter ==
  inv.cmd = "list" =>
    LET stored == inv.loaded_map
        aborting == {k \in DOMAIN stored : CutInsideCharacter(stored[k])}
    IN  /\ aborting = {} =>
              /\ inv.exit = 0
              /\ Len(inv.printed) = Cardinality(DOMAIN stored)
        /\ aborting # {} =>
              /\ inv.exit = 101
              /\ Len(inv.printed) < Cardinality(DOMAIN stored)
        /\ \A i \in 1..Len(inv.printed) :
              /\ inv.printed[i][1] \in DOMAIN stored \ aborting
              /\ byte_len(inv.printed[i][2]) <= ListWidth

\* List has aborted on a store of two aliases, one with a prompt of
\* two-byte characters that is cut inside a character
C28_Witness ==
  /\ inv.cmd = "list" /\ inv.exit = 101
  /\ DOMAIN inv.loaded_map = {Foo, SetName}
  /\ inv.loaded_map[Foo] = Wide
  /\ Len(inv.printed) < 2

====
